---- MODULE Spec2Model ----
(***************************************************************************)
(* Model of the mercury transmitter's per-destination server              *)
(* (core/services/llo/mercurytransmitter/server.go): the transmit loop    *)
(* runQueueLoop, the delete loop runDeleteQueueLoop, and the collaborators *)
(* they call (queue, wsrpc client, ORM), the latter reduced to their      *)
(* interfaces; and of the transmission scheduler (package transmission,   *)
(* README.md), whose functions are operators applied by the actions of    *)
(* SchedulerSpec.                                                          *)
(***************************************************************************)
EXTENDS Integers, Sequences, FiniteSets, TLC

(* ------------------------------ bounds -------------------------------- *)

\* Transmissions the producer hands to the queue, identified by their hash.
NumTransmissions == 3
\* cfg.TransmitQueueMaxSize(): the capacity of the deleteQueue channel.
TransmitQueueMaxSize == 1
\* Transport errors the client may return while the loop's context is live.
MaxTransportErrors == 2
\* Storage errors orm.Delete may return.
MaxDeleteErrors == 2
\* Longest donPeerIDs list handed to the scheduler.
MaxPeers == 3
\* Times block.timestamp advances, half a week each time.
MaxTicks == 2
\* Consecutive errors the waits of a backoff are computed for.
MaxAttempts == 12

\* Times the ownership changeset is applied.
MaxApplications == 2

(* --------------------------- data of the model ------------------------ *)

Hashes == 1 .. NumTransmissions

\* t == nil
NoTransmission == 0

\* t.Report.Info.ReportFormat of the transmission with hash h.
ReportFormat(h) ==
    CASE h % 3 = 1 -> "ReportFormatJSON"
      [] h % 3 = 2 -> "ReportFormatEVMPremiumLegacy"
      [] OTHER     -> "unsupported"

\* res.Code of a pb.TransmitResponse.
Codes == {"DuplicateReport", "OtherCode"}

DuplicateReport == "DuplicateReport"

\* What s.transmit returned: kind "encode" is (nil, nil, err) with no request
\* built; "transport" and "deadline" are (req, _, err) from s.c.Transmit;
\* "reply" is (req, res, nil) with res.Error empty or not and res.Code.
NoResult == [kind |-> "none", Error |-> FALSE, Code |-> "OtherCode"]

EncodeError == [kind |-> "encode", Error |-> FALSE, Code |-> "OtherCode"]

TransportErrors ==
    {[kind |-> k, Error |-> FALSE, Code |-> "OtherCode"] : k \in {"transport", "deadline"}}

Replies == {[kind |-> "reply", Error |-> e, Code |-> c] : e \in BOOLEAN, c \in Codes}

ReqIsNil(r) == r.kind = "encode"

ErrNotNil(r) == r.kind \in {"encode", "transport", "deadline"}

VARIABLES
    q,                              \* s.q: hashes of the queued transmissions
    qClosed,                        \* the queue has been closed
    nextHash,                       \* next transmission the producer pushes
    stored,                         \* hashes held by the persistence layer
    stopCh,                         \* TRUE once stopCh is closed
    ctxDone,                        \* runQueueLoop's ctx is cancelled
    deleteQueue,                    \* s.deleteQueue: buffered channel of hashes
    tpc,                            \* position of runQueueLoop
    t,                              \* the popped transmission
    res,                            \* (req, res, err) of the last s.transmit
    tb,                             \* attempt counter of runQueueLoop's backoff
    transmitSuccessCount,
    transmitDuplicateCount,
    transmitConnectionErrorCount,
    promTransmitServerErrorCount,   \* per res.Code
    transmitThreadBusyCount,
    dpc,                            \* position of runDeleteQueueLoop
    hash,                           \* the hash taken from deleteQueue
    db,                             \* attempt counter of the delete backoff
    transmitQueueDeleteErrorCount,
    deleteThreadBusyCount,
    netCalled,                      \* hashes s.c.Transmit was called for
    replied,                        \* hashes s.c.Transmit returned a reply for
    outcome,                        \* how the last transmit iteration ended
    dropped,                        \* hashes whose deletion request was dropped
    deleteCalls,                    \* orm.Delete calls made for `hash`
    deleteFails,                    \* orm.Delete errors returned for `hash`
    errCountAtTake,                 \* delete error counter when `hash` was taken
    donPeerIDs,                     \* scheduler input: the DON's peer list
    transmissionID,                 \* scheduler input: the workflow execution ID
    picked,                         \* permutation.Permutation(N, key) for them
    call,                           \* which entry point the caller uses
    config,                         \* req.Config, unwrapped
    tc,                             \* a TransmissionConfig handed in directly
    ret,                            \* what the scheduling call returned
    clientHealth,                   \* what s.c.HealthReport() returns
    queueHealth,                    \* what s.q.HealthReport() returns
    pmHealth,                       \* the condition of the persistence layer s.pm
    report,                         \* what the server's HealthReport() returned
    servers,                        \* two destinations: serverURL -> its server
    promVec,                        \* the process-wide counter vectors, by labels
    ormRows,                        \* the rows of the shared ORM, by (url, hash)
    crashed,                        \* a worker of some server has panicked
    actor,                          \* the server whose loop took the last step
    employees,                      \* HumanResources: mapping(address => Employee)
    activeEmployeeCount,
    blockTimestamp,                 \* block.timestamp
    lastCall,                       \* the last transaction sent to the contract
    transferCfg,                    \* the TransferOwnershipConfig of the changeset
    onchain,                        \* ownership state of the deployed contracts
    applications                    \* what each application of the changeset did

serverVars == <<q, qClosed, nextHash, stored, stopCh, ctxDone, deleteQueue, tpc, t,
          res, tb, transmitSuccessCount, transmitDuplicateCount,
          transmitConnectionErrorCount, promTransmitServerErrorCount,
          transmitThreadBusyCount, dpc, hash, db,
          transmitQueueDeleteErrorCount, deleteThreadBusyCount, netCalled,
          replied, outcome, dropped, deleteCalls, deleteFails, errCountAtTake>>

schedVars == <<donPeerIDs, transmissionID, picked, call, config, tc, ret>>

healthVars == <<clientHealth, queueHealth, pmHealth, report>>

pairVars == <<servers, promVec, ormRows, crashed, actor>>

hrVars == <<employees, activeEmployeeCount, blockTimestamp, lastCall>>

changesetVars == <<transferCfg, onchain, applications>>

vars == <<serverVars, schedVars, healthVars, pairVars, hrVars, changesetVars>>

\* What the loops of the server, the scheduling calls and HealthReport() each
\* leave alone.
outsideServer == <<schedVars, healthVars, pairVars, hrVars, changesetVars>>

outsideScheduler == <<serverVars, healthVars, pairVars, hrVars, changesetVars>>

outsideHealth == <<serverVars, schedVars, pairVars, hrVars, changesetVars>>

outsidePair == <<serverVars, schedVars, healthVars, hrVars, changesetVars>>

outsideHR == <<serverVars, schedVars, healthVars, pairVars, changesetVars>>

outsideChangeset == <<serverVars, schedVars, healthVars, pairVars, hrVars>>

transmitVars == <<tpc, t, res, tb, transmitSuccessCount, transmitDuplicateCount,
                  transmitConnectionErrorCount, promTransmitServerErrorCount,
                  transmitThreadBusyCount, netCalled, replied, outcome, dropped>>

deleteVars == <<dpc, hash, db, transmitQueueDeleteErrorCount,
                deleteThreadBusyCount, deleteCalls, deleteFails, errCountAtTake>>

envVars == <<qClosed, nextHash, stopCh, ctxDone>>

counterVars == <<transmitSuccessCount, transmitDuplicateCount,
                 transmitConnectionErrorCount, promTransmitServerErrorCount>>

ServerInit ==
    /\ q = {}
    /\ qClosed = FALSE
    /\ nextHash = 1
    /\ stored = {}
    /\ stopCh = FALSE
    /\ ctxDone = FALSE
    /\ deleteQueue = <<>>
    /\ tpc = "pop"
    /\ t = NoTransmission
    /\ res = NoResult
    /\ tb = 0
    /\ transmitSuccessCount = 0
    /\ transmitDuplicateCount = 0
    /\ transmitConnectionErrorCount = 0
    /\ promTransmitServerErrorCount = [c \in Codes |-> 0]
    /\ transmitThreadBusyCount = 0
    /\ dpc = "wait"
    /\ hash = NoTransmission
    /\ db = 0
    /\ transmitQueueDeleteErrorCount = 0
    /\ deleteThreadBusyCount = 0
    /\ netCalled = {}
    /\ replied = {}
    /\ outcome = "none"
    /\ dropped = {}
    /\ deleteCalls = 0
    /\ deleteFails = 0
    /\ errCountAtTake = 0

\* What `ret` holds before a scheduling call has returned.
NoReturn == [fn |-> "none", err |-> "nil", tc |-> [Schedule |-> "", DeltaStage |-> 0],
             isNil |-> TRUE, delays |-> [p \in {} |-> 0]]

\* No scheduling call is made.
SchedulerIdle ==
    /\ donPeerIDs = <<>>
    /\ transmissionID = ""
    /\ picked = <<>>
    /\ call = "none"
    /\ config = [wellTyped |-> TRUE, Schedule |-> "", DeltaStage |-> <<>>]
    /\ tc = [Schedule |-> "", DeltaStage |-> 0]
    /\ ret = NoReturn

\* map[string]error{}
EmptyHealth == [name \in {} |-> "nil"]

\* What `report` holds before HealthReport() has returned.
NoReport == [returned |-> FALSE, health |-> EmptyHealth]

\* HealthReport() is not called.
HealthIdle ==
    /\ clientHealth = EmptyHealth
    /\ queueHealth = EmptyHealth
    /\ pmHealth = EmptyHealth
    /\ report = NoReport

\* No second destination is looked at.
PairIdle ==
    /\ servers = <<>>
    /\ promVec = <<>>
    /\ ormRows = {}
    /\ crashed = FALSE
    /\ actor = "none"

\* uint256 public constant WEEK = 7 days
WEEK == 604800

\* block.timestamp when the contract is deployed.
DeployedAt == WEEK

\* address(0), and the two accounts that send transactions: the HR manager,
\* who may be registered as an employee too, and another account.
Addresses == {0, 1, 2}

\* The default value of an Employee in the mapping.
NoEmployee == [prefersEth |-> FALSE, weeklyUsdSalary |-> 0, employedSince |-> 0,
               terminatedAt |-> 0, lastWithdrawal |-> 0]

\* What `lastCall` holds before any transaction.
NoCall == [fn |-> "none", sender |-> 0, employee |-> 0, error |-> "none", amount |-> 0]

\* The contract as its constructor leaves it.
HRDeployed ==
    /\ employees = [a \in Addresses |-> NoEmployee]
    /\ activeEmployeeCount = 0
    /\ blockTimestamp = DeployedAt
    /\ lastCall = NoCall

\* The chains of the environment, by selector.
ChainSelectors == {1, 2}

\* The contracts deployed, and the chain each of them is on.
ContractNames == {"onRamp", "offRamp"}

ChainOf(contract) == IF contract = "offRamp" THEN 2 ELSE 1

\* e.Chains[chainSelector].DeployerKey: the account that deployed the contracts.
DeployerKey == "deployer"

\* The address of the timelock deployed on a chain.
TimelockOf(chainSelector) == IF chainSelector = 1 THEN "timelock1" ELSE "timelock2"

\* common.Address{}
ZeroAddress == "0x0"

\* A contract as deployed: owned by the deployer key, no transfer proposed.
\* `twoStep` tells whether a transfer takes effect at once or on acceptance.
Deployed == [owner |-> DeployerKey, pendingOwner |-> ZeroAddress, twoStep |-> FALSE]

\* TransferOwnershipConfig{}
EmptyConfig == [TimelocksPerChain |-> [c \in {} |-> ZeroAddress],
                Contracts |-> [c \in {} |-> <<>>]]

\* The changeset is not applied.
ChangesetIdle ==
    /\ transferCfg = EmptyConfig
    /\ onchain = [c \in ContractNames |-> Deployed]
    /\ applications = <<>>

Init == ServerInit /\ SchedulerIdle /\ HealthIdle /\ PairIdle /\ HRDeployed /\ ChangesetIdle

(* ------------- collaborators: producer, shutdown, contexts ------------- *)

\* The process is gone once a worker goroutine has panicked.
Alive == tpc # "panicked"

\* TransmitQueue.Push: refused (false) by a closed queue.
Push(h) == IF qClosed THEN q' = q ELSE q' = q \cup {h}

\* The transmitter stores a new transmission and pushes it onto the queue.
Produce ==
    /\ Alive
    /\ UNCHANGED outsideServer
    /\ nextHash <= NumTransmissions
    /\ ~qClosed
    /\ Push(nextHash)
    /\ stored' = stored \cup {nextHash}
    /\ nextHash' = nextHash + 1
    /\ UNCHANGED <<qClosed, stopCh, ctxDone, deleteQueue>>
    /\ UNCHANGED <<transmitVars, deleteVars>>

\* Shutdown: the stop channel is closed.
SignalStop ==
    /\ Alive
    /\ UNCHANGED outsideServer
    /\ ~stopCh
    /\ stopCh' = TRUE
    /\ UNCHANGED <<q, qClosed, nextHash, stored, ctxDone, deleteQueue>>
    /\ UNCHANGED <<transmitVars, deleteVars>>

\* Shutdown goes on to close the queue.
CloseQueue ==
    /\ Alive
    /\ UNCHANGED outsideServer
    /\ stopCh
    /\ ~qClosed
    /\ qClosed' = TRUE
    /\ UNCHANGED <<q, nextHash, stored, stopCh, ctxDone, deleteQueue>>
    /\ UNCHANGED <<transmitVars, deleteVars>>

\* ctx, cancel := stopCh.NewCtx(): ctx is cancelled after stopCh is closed.
CtxCancel ==
    /\ Alive
    /\ UNCHANGED outsideServer
    /\ stopCh
    /\ ~ctxDone
    /\ ctxDone' = TRUE
    /\ UNCHANGED <<q, qClosed, nextHash, stored, stopCh, deleteQueue>>
    /\ UNCHANGED <<transmitVars, deleteVars>>

(* ------------------------------- backoff ------------------------------- *)

\* b := backoff.Backoff{Min: 5ms, Max: 1s, Factor: 2, Jitter: true} of
\* runQueueLoop, in milliseconds.
TransmitBackoff == [Min |-> 5, Max |-> 1000, Factor |-> 2, Jitter |-> TRUE]

\* b := backoff.Backoff{Min: 1s, Max: 120s, Factor: 2, Jitter: true} of
\* runDeleteQueueLoop, in milliseconds.
DeleteBackoff == [Min |-> 1000, Max |-> 120000, Factor |-> 2, Jitter |-> TRUE]

\* math.Pow(factor, attempt)
RECURSIVE Pow(_, _)
Pow(factor, attempt) == IF attempt <= 0 THEN 1 ELSE factor * Pow(factor, attempt - 1)

\* What b.Duration() may return at the attempt counter `attempt`: Min *
\* Factor^attempt ("5ms, 10ms, 20ms, 40ms etc"), with Jitter a random point
\* between Min and that, never under Min and never over Max. lo and hi are the
\* ends of the interval of its values.
ForAttempt(b, attempt) ==
    LET durf == b.Min * Pow(b.Factor, attempt)
        top  == IF durf > b.Max THEN b.Max ELSE durf
    IN  IF b.Min >= b.Max
           THEN [lo |-> b.Max, hi |-> b.Max]
           ELSE [lo |-> IF b.Jitter THEN b.Min ELSE top, hi |-> top]

\* The timer of the wait runQueueLoop is in: b.Duration() was called with the
\* attempt counter one less than it is now.
TransmitWait == ForAttempt(TransmitBackoff, tb - 1)

\* The timer of the wait runDeleteQueueLoop is in.
DeleteWait == ForAttempt(DeleteBackoff, db - 1)

(* ----------------------------- runQueueLoop ---------------------------- *)

\* The closure returns: deferred transmitThreadBusyCount.Add(-1), and the
\* locals t, req, res, err go out of scope.
EndIteration(next, how) ==
    /\ tpc' = next
    /\ outcome' = how
    /\ t' = NoTransmission
    /\ res' = NoResult
    /\ transmitThreadBusyCount' = transmitThreadBusyCount - 1

PopClosed_NilDereferenced ==
    /\ Alive
    /\ UNCHANGED outsideServer
    /\ tpc = "pop"
    /\ qClosed
    /\ tpc' = "panicked"
    /\ outcome' = "panic"
    /\ UNCHANGED <<q, stored, deleteQueue, envVars, deleteVars>>
    /\ UNCHANGED <<t, res, tb, counterVars, transmitThreadBusyCount, netCalled,
                   replied, dropped>>

\* t := s.q.BlockingPop() returned nil: the queue was closed.
PopClosed ==
    /\ Alive
    /\ UNCHANGED outsideServer
    /\ tpc = "pop"
    /\ qClosed
    /\ tpc' = "done"
    /\ outcome' = "closed"
    /\ UNCHANGED <<q, stored, deleteQueue, envVars, deleteVars>>
    /\ UNCHANGED <<t, res, tb, counterVars, transmitThreadBusyCount, netCalled, replied, dropped>>

\* t := s.q.BlockingPop() returned a transmission; transmitThreadBusyCount.Add(1).
PopTransmission ==
    /\ Alive
    /\ UNCHANGED outsideServer
    /\ tpc = "pop"
    /\ ~qClosed
    /\ \E h \in q :
          /\ q' = q \ {h}
          /\ t' = h
    /\ tpc' = "sending"
    /\ transmitThreadBusyCount' = transmitThreadBusyCount + 1
    /\ UNCHANGED <<stored, deleteQueue, envVars, deleteVars>>
    /\ UNCHANGED <<res, tb, counterVars, netCalled, replied, outcome, dropped>>

\* s.transmit, the packing: an unsupported format, or a Pack error, returns
\* (nil, nil, err) before any request is built.
TransmitEncodeFails ==
    /\ Alive
    /\ UNCHANGED outsideServer
    /\ tpc = "sending"
    /\ res' = EncodeError
    /\ tpc' = "sent"
    /\ UNCHANGED <<q, stored, deleteQueue, envVars, deleteVars>>
    /\ UNCHANGED <<t, tb, counterVars, transmitThreadBusyCount, netCalled, replied, outcome, dropped>>

\* s.transmit with a supported format: s.c.Transmit(ctx, req) is called and
\* returns a reply, or an error (connection failure, or the attempt's deadline).
TransmitCallsClient ==
    /\ Alive
    /\ UNCHANGED outsideServer
    /\ tpc = "sending"
    /\ ReportFormat(t) \in {"ReportFormatJSON", "ReportFormatEVMPremiumLegacy"}
    /\ netCalled' = netCalled \cup {t}
    /\ \/ /\ res' \in Replies
          /\ replied' = replied \cup {t}
       \/ /\ ctxDone \/ transmitConnectionErrorCount < MaxTransportErrors
          /\ res' \in TransportErrors
          /\ replied' = replied
    /\ tpc' = "sent"
    /\ UNCHANGED <<q, stored, deleteQueue, envVars, deleteVars>>
    /\ UNCHANGED <<t, tb, counterVars, transmitThreadBusyCount, outcome, dropped>>

ReturnOnCancel_Requeues(h) ==
    /\ q' = q \cup {h}
    /\ deleteQueue' = deleteQueue
    /\ UNCHANGED <<counterVars, dropped>>

ReturnOnCancel_RequestsDelete(h) ==
    /\ q' = q
    /\ deleteQueue' = IF Len(deleteQueue) < TransmitQueueMaxSize
                         THEN Append(deleteQueue, h) ELSE deleteQueue
    /\ UNCHANGED <<counterVars, dropped>>

\* The body of the ctx.Err() != nil branch: return false, nothing else.
ReturnOnCancel(h) ==
    /\ q' = q
    /\ deleteQueue' = deleteQueue
    /\ UNCHANGED <<counterVars, dropped>>

\* if ctx.Err() != nil { return false }
HandleCtxCancelled ==
    /\ Alive
    /\ UNCHANGED outsideServer
    /\ tpc = "sent"
    /\ ctxDone
    /\ ReturnOnCancel(t)
    /\ EndIteration("done", "abandoned")
    /\ UNCHANGED <<stored, envVars, deleteVars>>
    /\ UNCHANGED <<tb, netCalled, replied>>

\* else if err != nil, with req == nil: the counter is incremented and the
\* arguments of the Errorw call read req.Payload, a nil pointer dereference.
\* The deferred calls run and the panic ends the process.
HandleErrorNilRequest ==
    /\ Alive
    /\ UNCHANGED outsideServer
    /\ tpc = "sent"
    /\ ~ctxDone
    /\ ErrNotNil(res)
    /\ ReqIsNil(res)
    /\ transmitConnectionErrorCount' = transmitConnectionErrorCount + 1
    /\ EndIteration("panicked", "panic")
    /\ UNCHANGED <<q, stored, deleteQueue, envVars, deleteVars>>
    /\ UNCHANGED <<tb, transmitSuccessCount, transmitDuplicateCount,
                   promTransmitServerErrorCount, netCalled, replied, dropped>>

PushBack_Dropped(h) == q' = q

\* if ok := s.q.Push(t); !ok { ... return false }
PushBack(h) == Push(h)

HandleTransportError_ExitsOnDeadline ==
    /\ Alive
    /\ UNCHANGED outsideServer
    /\ tpc = "sent"
    /\ ~ctxDone
    /\ ErrNotNil(res)
    /\ ~ReqIsNil(res)
    /\ IF res.kind = "deadline"
          THEN /\ EndIteration("done", "abandoned")
               /\ UNCHANGED <<q, tb, transmitConnectionErrorCount>>
          ELSE /\ transmitConnectionErrorCount' = transmitConnectionErrorCount + 1
               /\ PushBack(t)
               /\ IF qClosed
                     THEN /\ EndIteration("done", "pushRejected")
                          /\ tb' = tb
                     ELSE /\ tpc' = "backoff"
                          /\ tb' = tb + 1
                          /\ outcome' = "requeued"
                          /\ UNCHANGED <<t, res, transmitThreadBusyCount>>
    /\ UNCHANGED <<stored, deleteQueue, envVars, deleteVars>>
    /\ UNCHANGED <<transmitSuccessCount, transmitDuplicateCount,
                   promTransmitServerErrorCount, netCalled, replied, dropped>>

HandleTransportError_WaitsWhenClosed ==
    /\ Alive
    /\ UNCHANGED outsideServer
    /\ tpc = "sent"
    /\ ~ctxDone
    /\ ErrNotNil(res)
    /\ ~ReqIsNil(res)
    /\ transmitConnectionErrorCount' = transmitConnectionErrorCount + 1
    /\ PushBack(t)
    /\ tpc' = "backoff"
    /\ tb' = tb + 1
    /\ outcome' = "requeued"
    /\ UNCHANGED <<t, res, transmitThreadBusyCount>>
    /\ UNCHANGED <<stored, deleteQueue, envVars, deleteVars>>
    /\ UNCHANGED <<transmitSuccessCount, transmitDuplicateCount,
                   promTransmitServerErrorCount, netCalled, replied, dropped>>

\* else if err != nil, with a request: count, log, push t back; a closed queue
\* refuses the push and the loop returns, otherwise b.Duration() and the wait.
HandleTransportError ==
    /\ Alive
    /\ UNCHANGED outsideServer
    /\ tpc = "sent"
    /\ ~ctxDone
    /\ ErrNotNil(res)
    /\ ~ReqIsNil(res)
    /\ transmitConnectionErrorCount' = transmitConnectionErrorCount + 1
    /\ PushBack(t)
    /\ IF qClosed
          THEN /\ EndIteration("done", "pushRejected")
               /\ tb' = tb
          ELSE /\ tpc' = "backoff"
               /\ tb' = tb + 1
               /\ outcome' = "requeued"
               /\ UNCHANGED <<t, res, transmitThreadBusyCount>>
    /\ UNCHANGED <<stored, deleteQueue, envVars, deleteVars>>
    /\ UNCHANGED <<transmitSuccessCount, transmitDuplicateCount,
                   promTransmitServerErrorCount, netCalled, replied, dropped>>

\* case <-time.After(b.Duration()): return true. The timer is created when the
\* select is entered and is not ready then, so this case is the one that wakes
\* the loop only if the timer fires before stopCh is closed.
BackoffElapsed ==
    /\ Alive
    /\ UNCHANGED outsideServer
    /\ tpc = "backoff"
    /\ ~stopCh
    /\ EndIteration("pop", "requeued")
    /\ UNCHANGED <<q, stored, deleteQueue, envVars, deleteVars>>
    /\ UNCHANGED <<tb, counterVars, netCalled, replied, dropped>>

\* case <-stopCh: return false
BackoffStopped ==
    /\ Alive
    /\ UNCHANGED outsideServer
    /\ tpc = "backoff"
    /\ stopCh
    /\ EndIteration("done", "requeued")
    /\ UNCHANGED <<q, stored, deleteQueue, envVars, deleteVars>>
    /\ UNCHANGED <<tb, counterVars, netCalled, replied, dropped>>

CountReply_DuplicateOnly(r) ==
    IF ~r.Error
       THEN /\ transmitSuccessCount' = transmitSuccessCount + 1
            /\ UNCHANGED <<transmitDuplicateCount, promTransmitServerErrorCount>>
       ELSE IF r.Code = DuplicateReport
               THEN /\ transmitDuplicateCount' = transmitDuplicateCount + 1
                    /\ UNCHANGED <<transmitSuccessCount, promTransmitServerErrorCount>>
               ELSE /\ promTransmitServerErrorCount' =
                          [promTransmitServerErrorCount EXCEPT ![r.Code] = @ + 1]
                    /\ UNCHANGED <<transmitSuccessCount, transmitDuplicateCount>>

CountReply_ErrorAlsoSuccess(r) ==
    IF ~r.Error
       THEN /\ transmitSuccessCount' = transmitSuccessCount + 1
            /\ UNCHANGED <<transmitDuplicateCount, promTransmitServerErrorCount>>
       ELSE IF r.Code = DuplicateReport
               THEN /\ transmitSuccessCount' = transmitSuccessCount + 1
                    /\ transmitDuplicateCount' = transmitDuplicateCount + 1
                    /\ UNCHANGED promTransmitServerErrorCount
               ELSE /\ promTransmitServerErrorCount' =
                          [promTransmitServerErrorCount EXCEPT ![r.Code] = @ + 1]
                    /\ transmitSuccessCount' = transmitSuccessCount + 1
                    /\ UNCHANGED transmitDuplicateCount

\* The classification of a reply, lines 240-256.
CountReply(r) ==
    IF ~r.Error
       THEN /\ transmitSuccessCount' = transmitSuccessCount + 1
            /\ UNCHANGED <<transmitDuplicateCount, promTransmitServerErrorCount>>
       ELSE IF r.Code = DuplicateReport
               THEN /\ transmitSuccessCount' = transmitSuccessCount + 1
                    /\ transmitDuplicateCount' = transmitDuplicateCount + 1
                    /\ UNCHANGED promTransmitServerErrorCount
               ELSE /\ promTransmitServerErrorCount' =
                          [promTransmitServerErrorCount EXCEPT ![r.Code] = @ + 1]
                    /\ UNCHANGED <<transmitSuccessCount, transmitDuplicateCount>>

NoRetryAfterReply_RetriesServerError(r, h) ==
    IF r.Error /\ r.Code # DuplicateReport THEN Push(h) ELSE q' = q

\* "We don't need to retry here": no branch of the classification pushes t back.
NoRetryAfterReply(r, h) == q' = q

\* The delete loop is parked in its outer select with no case chosen yet: a
\* send on deleteQueue is handed to it directly.
ReceiverParked == dpc = "parked" /\ ~stopCh

OfferDelete_Blocking(h) ==
    IF ReceiverParked
       THEN /\ hash' = h
            /\ dpc' = "woken"
            /\ UNCHANGED <<deleteQueue, dropped>>
       ELSE /\ Len(deleteQueue) < TransmitQueueMaxSize
            /\ deleteQueue' = Append(deleteQueue, h)
            /\ dropped' = dropped
            /\ UNCHANGED <<hash, dpc>>

OfferDelete_Unbuffered(h) ==
    /\ ReceiverParked
    /\ hash' = h
    /\ dpc' = "woken"
    /\ UNCHANGED <<deleteQueue, dropped>>

\* select { case s.deleteQueue <- t.Hash(): default: Criticalw(...) }
OfferDelete(h) ==
    IF ReceiverParked
       THEN /\ hash' = h
            /\ dpc' = "woken"
            /\ UNCHANGED <<deleteQueue, dropped>>
       ELSE /\ IF Len(deleteQueue) < TransmitQueueMaxSize
                  THEN /\ deleteQueue' = Append(deleteQueue, h)
                       /\ dropped' = dropped
                  ELSE /\ deleteQueue' = deleteQueue
                       /\ dropped' = dropped \cup {h}
            /\ UNCHANGED <<hash, dpc>>

HandleReply_KeepsBackoff ==
    /\ Alive
    /\ UNCHANGED outsideServer
    /\ tpc = "sent"
    /\ ~ctxDone
    /\ ~ErrNotNil(res)
    /\ tb' = tb
    /\ CountReply(res)
    /\ NoRetryAfterReply(res, t)
    /\ OfferDelete(t)
    /\ EndIteration("pop", IF Len(deleteQueue) < TransmitQueueMaxSize
                              THEN "deleteRequested" ELSE "deleteDropped")
    /\ UNCHANGED <<stored, envVars>>
    /\ UNCHANGED <<db, transmitQueueDeleteErrorCount, deleteThreadBusyCount,
                   deleteCalls, deleteFails, errCountAtTake>>
    /\ UNCHANGED <<transmitConnectionErrorCount, netCalled, replied>>

\* err == nil: b.Reset(), classify the reply, hand the hash to the delete loop.
HandleReply ==
    /\ Alive
    /\ UNCHANGED outsideServer
    /\ tpc = "sent"
    /\ ~ctxDone
    /\ ~ErrNotNil(res)
    /\ tb' = 0
    /\ CountReply(res)
    /\ NoRetryAfterReply(res, t)
    /\ OfferDelete(t)
    /\ EndIteration("pop", IF Len(deleteQueue) < TransmitQueueMaxSize
                              THEN "deleteRequested" ELSE "deleteDropped")
    /\ UNCHANGED <<stored, envVars>>
    /\ UNCHANGED <<db, transmitQueueDeleteErrorCount, deleteThreadBusyCount,
                   deleteCalls, deleteFails, errCountAtTake>>
    /\ UNCHANGED <<transmitConnectionErrorCount, netCalled, replied>>

TransmitLoop ==
    \/ PopClosed
    \/ PopTransmission
    \/ TransmitEncodeFails
    \/ TransmitCallsClient
    \/ HandleCtxCancelled
    \/ HandleErrorNilRequest
    \/ HandleTransportError
    \/ BackoffElapsed
    \/ BackoffStopped
    \/ HandleReply

(* -------------------------- runDeleteQueueLoop ------------------------- *)

\* s.deleteThreadBusyCount.Add(1); s.pm.orm.Delete(ctx, [][32]byte{hash}) is called.
CallDelete(n) ==
    /\ deleteThreadBusyCount' = deleteThreadBusyCount + 1
    /\ deleteCalls' = n
    /\ dpc' = "deleting"

CountDeleteError_Missing == UNCHANGED transmitQueueDeleteErrorCount

\* s.transmitQueueDeleteErrorCount.Inc() of the error branch.
CountDeleteError ==
    transmitQueueDeleteErrorCount' = transmitQueueDeleteErrorCount + 1

\* case hash := <-s.deleteQueue, and the first attempt starts. The outer
\* select is entered with a hash in the channel; if stopCh is closed as well,
\* either case may be chosen.
TakeHash ==
    /\ Alive
    /\ UNCHANGED outsideServer
    /\ dpc = "wait"
    /\ deleteQueue # <<>>
    /\ hash' = Head(deleteQueue)
    /\ deleteQueue' = Tail(deleteQueue)
    /\ deleteFails' = 0
    /\ errCountAtTake' = transmitQueueDeleteErrorCount
    /\ CallDelete(1)
    /\ UNCHANGED <<q, stored, envVars, transmitVars>>
    /\ UNCHANGED <<db, transmitQueueDeleteErrorCount>>

\* The outer select is entered with neither case ready: the loop parks on
\* deleteQueue and stopCh, and the first of the two to become ready wakes it.
DeletePark ==
    /\ Alive
    /\ UNCHANGED outsideServer
    /\ dpc = "wait"
    /\ deleteQueue = <<>>
    /\ ~stopCh
    /\ dpc' = "parked"
    /\ UNCHANGED <<q, stored, deleteQueue, envVars, transmitVars>>
    /\ UNCHANGED <<hash, db, transmitQueueDeleteErrorCount, deleteThreadBusyCount,
                   deleteCalls, deleteFails, errCountAtTake>>

\* case hash := <-s.deleteQueue of a parked loop, woken by the send that handed
\* it the hash: the first attempt starts.
ReceiveHandedHash ==
    /\ Alive
    /\ UNCHANGED outsideServer
    /\ dpc = "woken"
    /\ deleteFails' = 0
    /\ errCountAtTake' = transmitQueueDeleteErrorCount
    /\ CallDelete(1)
    /\ UNCHANGED <<q, stored, deleteQueue, envVars, transmitVars>>
    /\ UNCHANGED <<hash, db, transmitQueueDeleteErrorCount>>

\* case <-stopCh of the outer select: return. A parked loop is woken by the
\* close of stopCh.
IdleStopped ==
    /\ Alive
    /\ UNCHANGED outsideServer
    /\ dpc \in {"wait", "parked"}
    /\ stopCh
    /\ dpc' = "done"
    /\ UNCHANGED <<q, stored, deleteQueue, envVars, transmitVars>>
    /\ UNCHANGED <<hash, db, transmitQueueDeleteErrorCount, deleteThreadBusyCount,
                   deleteCalls, deleteFails, errCountAtTake>>

DeleteSucceeds_KeepsBackoff ==
    /\ Alive
    /\ UNCHANGED outsideServer
    /\ dpc = "deleting"
    /\ stored' = stored \ {hash}
    /\ db' = db
    /\ deleteThreadBusyCount' = deleteThreadBusyCount - 1
    /\ dpc' = "wait"
    /\ UNCHANGED <<q, deleteQueue, envVars, transmitVars>>
    /\ UNCHANGED <<hash, transmitQueueDeleteErrorCount, deleteCalls, deleteFails,
                   errCountAtTake>>

\* orm.Delete returned nil: the record is removed; break, b.Reset(),
\* s.deleteThreadBusyCount.Add(-1).
DeleteSucceeds ==
    /\ Alive
    /\ UNCHANGED outsideServer
    /\ dpc = "deleting"
    /\ stored' = stored \ {hash}
    /\ db' = 0
    /\ deleteThreadBusyCount' = deleteThreadBusyCount - 1
    /\ dpc' = "wait"
    /\ UNCHANGED <<q, deleteQueue, envVars, transmitVars>>
    /\ UNCHANGED <<hash, transmitQueueDeleteErrorCount, deleteCalls, deleteFails,
                   errCountAtTake>>

DeleteFails_DiscardsHash ==
    /\ Alive
    /\ UNCHANGED outsideServer
    /\ dpc = "deleting"
    /\ transmitQueueDeleteErrorCount < MaxDeleteErrors
    /\ deleteFails' = deleteFails + 1
    /\ CountDeleteError
    /\ db' = db + 1
    /\ deleteThreadBusyCount' = deleteThreadBusyCount - 1
    /\ dpc' = "wait"
    /\ UNCHANGED <<q, stored, deleteQueue, envVars, transmitVars>>
    /\ UNCHANGED <<hash, deleteCalls, errCountAtTake>>

\* orm.Delete returned an error: log, s.transmitQueueDeleteErrorCount.Inc(),
\* b.Duration(), and the select on the timer and stopCh.
DeleteFails ==
    /\ Alive
    /\ UNCHANGED outsideServer
    /\ dpc = "deleting"
    /\ transmitQueueDeleteErrorCount < MaxDeleteErrors
    /\ deleteFails' = deleteFails + 1
    /\ CountDeleteError
    /\ db' = db + 1
    /\ dpc' = "backoff"
    /\ UNCHANGED <<q, stored, deleteQueue, envVars, transmitVars>>
    /\ UNCHANGED <<hash, deleteThreadBusyCount, deleteCalls, errCountAtTake>>

\* case <-time.After(b.Duration()): continue, into the next attempt. As in
\* runQueueLoop the timer wakes the loop only if it fires before stopCh is
\* closed.
DeleteBackoffElapsed ==
    /\ Alive
    /\ UNCHANGED outsideServer
    /\ dpc = "backoff"
    /\ ~stopCh
    /\ CallDelete(deleteCalls + 1)
    /\ UNCHANGED <<q, stored, deleteQueue, envVars, transmitVars>>
    /\ UNCHANGED <<hash, db, transmitQueueDeleteErrorCount, deleteFails,
                   errCountAtTake>>

DeleteBackoffStopped_RetriesOnce ==
    /\ Alive
    /\ UNCHANGED outsideServer
    /\ dpc = "backoff"
    /\ stopCh
    /\ CallDelete(deleteCalls + 1)
    /\ UNCHANGED <<q, stored, deleteQueue, envVars, transmitVars>>
    /\ UNCHANGED <<hash, db, transmitQueueDeleteErrorCount, deleteFails,
                   errCountAtTake>>

\* case <-stopCh of the inner select: s.deleteThreadBusyCount.Add(-1); return.
DeleteBackoffStopped ==
    /\ Alive
    /\ UNCHANGED outsideServer
    /\ dpc = "backoff"
    /\ stopCh
    /\ deleteThreadBusyCount' = deleteThreadBusyCount - 1
    /\ dpc' = "done"
    /\ UNCHANGED <<q, stored, deleteQueue, envVars, transmitVars>>
    /\ UNCHANGED <<hash, db, transmitQueueDeleteErrorCount, deleteCalls,
                   deleteFails, errCountAtTake>>

DeleteLoop ==
    \/ TakeHash
    \/ DeletePark
    \/ ReceiveHandedHash
    \/ IdleStopped
    \/ DeleteSucceeds
    \/ DeleteFails
    \/ DeleteBackoffElapsed
    \/ DeleteBackoffStopped

(* ---------------------------- specification ---------------------------- *)

Next ==
    \/ Produce
    \/ SignalStop
    \/ CloseQueue
    \/ CtxCancel
    \/ TransmitLoop
    \/ DeleteLoop

Spec == Init /\ [][Next]_vars

\* runQueueLoop with its collaborators and without the delete loop, which
\* reads and writes nothing that runQueueLoop's control flow depends on: the
\* hand-off to deleteQueue is a select with a default case.
TransmitNext ==
    \/ Produce
    \/ SignalStop
    \/ CloseQueue
    \/ CtxCancel
    \/ TransmitLoop

\* The runtime schedules a runnable worker, and a shutdown that has closed
\* stopCh goes on to close the queue.
TransmitFairSpec ==
    /\ Init
    /\ [][TransmitNext]_vars
    /\ WF_vars(TransmitLoop)
    /\ WF_vars(CloseQueue)

(* ---------------------- transmission scheduler ------------------------- *)

Schedule_AllAtOnce == "allAtOnce"

Schedule_OneAtATime == "oneAtATime"

\* Entries of a []types.PeerID. The scheduler never looks inside a peer ID.
PeerIDs == {<<"peer", i>> : i \in 1 .. MaxPeers}

\* map[types.PeerID]time.Duration{}
EmptyMap == [p \in {} |-> 0]

\* m[k] = v
MapPut(m, k, v) == [x \in DOMAIN m \cup {k} |-> IF x = k THEN v ELSE m[x]]

\* Durations are counted in milliseconds.
UnitValue(u) ==
    CASE u = <<"m", "s">> -> 1
      [] u = <<"s">>      -> 1000
      [] u = <<"m">>      -> 60000
      [] u = <<"h">>      -> 3600000
      [] OTHER            -> -1

DigitChars == {"0", "1", "2", "3", "4", "5", "6", "7", "8", "9"}

DigitValue(c) ==
    CASE c = "0" -> 0 [] c = "1" -> 1 [] c = "2" -> 2 [] c = "3" -> 3 [] c = "4" -> 4
      [] c = "5" -> 5 [] c = "6" -> 6 [] c = "7" -> 7 [] c = "8" -> 8 [] c = "9" -> 9

\* Length of the longest prefix of s whose characters are all (digits = TRUE)
\* or are none (digits = FALSE) in DigitChars.
RECURSIVE PrefixLen(_, _)
PrefixLen(s, digits) ==
    IF s = <<>> \/ ((Head(s) \in DigitChars) # digits)
       THEN 0
       ELSE 1 + PrefixLen(Tail(s), digits)

\* The integer written by a sequence of digits.
RECURSIVE LeadingInt(_)
LeadingInt(ds) ==
    IF ds = <<>> THEN 0
    ELSE 10 * LeadingInt(SubSeq(ds, 1, Len(ds) - 1)) + DigitValue(ds[Len(ds)])

ParseFailed == [ok |-> FALSE, d |-> 0]

\* The loop of time.ParseDuration over ([0-9]+[a-z]+)+, adding to acc.
RECURSIVE ParseGroups(_, _)
ParseGroups(s, acc) ==
    LET nd   == PrefixLen(s, TRUE)
        rest == SubSeq(s, nd + 1, Len(s))
        nu   == PrefixLen(rest, FALSE)
        unit == SubSeq(rest, 1, nu)
        more == SubSeq(rest, nu + 1, Len(rest))
        sum  == acc + LeadingInt(SubSeq(s, 1, nd)) * UnitValue(unit)
    IN  IF nd = 0 \/ nu = 0 \/ UnitValue(unit) < 0
           THEN ParseFailed
           ELSE IF more = <<>> THEN [ok |-> TRUE, d |-> sum]
                ELSE ParseGroups(more, sum)

\* time.ParseDuration(s) for a string given as its characters: an optional
\* sign, then "0" or a non-empty sequence of groups of digits and a unit.
ParseDuration(s) ==
    LET signed == s # <<>> /\ Head(s) \in {"-", "+"}
        neg    == s # <<>> /\ Head(s) = "-"
        body   == IF signed THEN Tail(s) ELSE s
        r      == ParseGroups(body, 0)
    IN  IF body = <<"0">> THEN [ok |-> TRUE, d |-> 0]
        ELSE IF body = <<>> \/ ~r.ok THEN ParseFailed
        ELSE [ok |-> TRUE, d |-> IF neg THEN 0 - r.d ELSE r.d]

\* TransmissionConfig{}
ZeroConfig == [Schedule |-> "", DeltaStage |-> 0]

ExtractTransmissionConfig_IgnoresParseError(c) ==
    IF ~c.wellTyped
       THEN [err |-> "unwrap", tc |-> ZeroConfig]
       ELSE IF c.Schedule = "" /\ Len(c.DeltaStage) = 0
               THEN [err |-> "nil",
                     tc  |-> [Schedule |-> Schedule_AllAtOnce, DeltaStage |-> 0]]
               ELSE [err |-> "nil",
                     tc  |-> [Schedule   |-> c.Schedule,
                              DeltaStage |-> ParseDuration(c.DeltaStage).d]]

ExtractTransmissionConfig_NoDefault(c) ==
    IF ~c.wellTyped
       THEN [err |-> "unwrap", tc |-> ZeroConfig]
       ELSE LET duration == ParseDuration(c.DeltaStage)
            IN  IF ~duration.ok
                   THEN [err |-> "parse", tc |-> ZeroConfig]
                   ELSE [err |-> "nil",
                         tc  |-> [Schedule |-> c.Schedule, DeltaStage |-> duration.d]]

ExtractTransmissionConfig_ZeroForEmptyStage(c) ==
    IF ~c.wellTyped
       THEN [err |-> "unwrap", tc |-> ZeroConfig]
       ELSE IF c.Schedule = "" /\ Len(c.DeltaStage) = 0
               THEN [err |-> "nil",
                     tc  |-> [Schedule |-> Schedule_AllAtOnce, DeltaStage |-> 0]]
               ELSE LET duration == IF Len(c.DeltaStage) = 0
                                       THEN [ok |-> TRUE, d |-> 0]
                                       ELSE ParseDuration(c.DeltaStage)
                    IN  IF ~duration.ok
                           THEN [err |-> "parse", tc |-> ZeroConfig]
                           ELSE [err |-> "nil",
                                 tc  |-> [Schedule   |-> c.Schedule,
                                          DeltaStage |-> duration.d]]

ExtractTransmissionConfig(c) ==
    IF ~c.wellTyped
       THEN [err |-> "unwrap", tc |-> ZeroConfig]
       ELSE IF c.Schedule = "" /\ Len(c.DeltaStage) = 0
               THEN [err |-> "nil",
                     tc  |-> [Schedule |-> Schedule_AllAtOnce, DeltaStage |-> 0]]
               ELSE LET duration == ParseDuration(c.DeltaStage)
                    IN  IF ~duration.ok
                           THEN [err |-> "parse", tc |-> ZeroConfig]
                           ELSE [err |-> "nil",
                                 tc  |-> [Schedule   |-> c.Schedule,
                                          DeltaStage |-> duration.d]]

NoSchedule == [err |-> TRUE, sch |-> <<>>]

createTransmissionSchedule_OneShort(scheduleType, N) ==
    CASE scheduleType = Schedule_AllAtOnce  -> [err |-> FALSE, sch |-> <<N>>]
      [] scheduleType = Schedule_OneAtATime -> [err |-> FALSE, sch |-> [i \in 1 .. N - 1 |-> 1]]
      [] OTHER                              -> NoSchedule

createTransmissionSchedule_DefaultsToAll(scheduleType, N) ==
    CASE scheduleType = Schedule_OneAtATime -> [err |-> FALSE, sch |-> [i \in 1 .. N |-> 1]]
      [] OTHER                              -> [err |-> FALSE, sch |-> <<N>>]

createTransmissionSchedule(scheduleType, N) ==
    CASE scheduleType = Schedule_AllAtOnce  -> [err |-> FALSE, sch |-> <<N>>]
      [] scheduleType = Schedule_OneAtATime -> [err |-> FALSE, sch |-> [i \in 1 .. N |-> 1]]
      [] OTHER                              -> NoSchedule

\* return nil
NoDelay == [isNil |-> TRUE, d |-> 0]

\* The loop of delayFor from bucket i (0-based) with the running sum.
RECURSIVE delayForFrom(_, _, _, _, _, _)
delayForFrom(i, sum, position, schedule, permutation, deltaStage) ==
    IF i >= Len(schedule)
       THEN NoDelay
       ELSE LET s == sum + schedule[i + 1]
            IN  IF permutation[position + 1] < s
                   THEN [isNil |-> FALSE, d |-> i * deltaStage]
                   ELSE delayForFrom(i + 1, s, position, schedule, permutation,
                                     deltaStage)

delayFor_NextStage(position, schedule, permutation, deltaStage) ==
    LET r == delayForFrom(0, 0, position, schedule, permutation, deltaStage)
    IN  IF r.isNil THEN r ELSE [isNil |-> FALSE, d |-> r.d + deltaStage]

delayFor_LateBucket(position, schedule, permutation, deltaStage) ==
    delayForFrom(0, -1, position, schedule, permutation, deltaStage)

\* position indexes donPeerIDs from 0, as in the source.
delayFor(position, schedule, permutation, deltaStage) ==
    delayForFrom(0, 0, position, schedule, permutation, deltaStage)

\* Keccak256(transmissionID)[:16]: an opaque key derived from the ID alone.
transmissionScheduleSeed(id) == <<"keccak256", id>>

\* The bijections of 0 .. n-1, as sequences.
Bijections(n) ==
    {p \in [1 .. n -> 0 .. n - 1] : \A i, j \in 1 .. n : p[i] = p[j] => i = j}

\* permutation.Permutation(n, key): the permutation the key selects. It is the
\* value of `picked`, which Init draws from Bijections(n).
Permutation(n, key) == picked

\* The loop over donPeerIDs from index i (0-based), filling the map m.
RECURSIVE AssignDelays(_, _, _, _, _, _)
AssignDelays(i, m, peers, schedule, permutation, deltaStage) ==
    IF i >= Len(peers)
       THEN m
       ELSE LET delay == delayFor(i, schedule, permutation, deltaStage)
            IN  AssignDelays(i + 1,
                             IF delay.isNil THEN m
                                            ELSE MapPut(m, peers[i + 1], delay.d),
                             peers, schedule, permutation, deltaStage)

GetPeerIDToTransmissionDelaysForConfig(peers, id, cfg) ==
    LET donMemberCount == Len(peers)
        key            == transmissionScheduleSeed(id)
        schedule       == createTransmissionSchedule(cfg.Schedule, donMemberCount)
    IN  IF schedule.err
           THEN [err |-> "unknown schedule", isNil |-> TRUE, delays |-> EmptyMap]
           ELSE [err    |-> "nil",
                 isNil  |-> FALSE,
                 delays |-> AssignDelays(0, EmptyMap, peers, schedule.sch,
                                         Permutation(donMemberCount, key),
                                         cfg.DeltaStage)]

\* validation.ValidateWorkflowOrExecutionID: nil for a well-formed ID.
ValidateWorkflowOrExecutionID(id) == id # ""

GetPeerIDToTransmissionDelay(peers, c, id) ==
    LET x == ExtractTransmissionConfig(c)
    IN  IF x.err # "nil"
           THEN [err |-> x.err, isNil |-> TRUE, delays |-> EmptyMap]
           ELSE IF ~ValidateWorkflowOrExecutionID(id)
                   THEN [err |-> "invalid id", isNil |-> TRUE, delays |-> EmptyMap]
                   ELSE GetPeerIDToTransmissionDelaysForConfig(peers, id, x.tc)

\* donPeerIDs lists of up to MaxPeers entries, duplicates included. Peer IDs
\* are opaque to the scheduler, so lists are taken up to a renaming of the
\* peers: an ID appears for the first time only after every ID of lower index.
PeerLists ==
    LET Indexed == UNION {[1 .. n -> 1 .. MaxPeers] : n \in 0 .. MaxPeers}
        InOrder(l) == \A i \in 1 .. Len(l) : \A k \in 1 .. l[i] - 1 :
                          \E j \in 1 .. i - 1 : l[j] = k
    IN  {[i \in 1 .. Len(l) |-> <<"peer", l[i]>>] : l \in {x \in Indexed : InOrder(x)}}

ScheduleNames == {"", Schedule_AllAtOnce, Schedule_OneAtATime, "roundRobin"}

\* DeltaStage strings of a request: "", "0", "1s", "2ms", "1s2ms", "-1s", "1",
\* "1x", "s".
DeltaStageStrings ==
    {<<>>, <<"0">>, <<"1", "s">>, <<"2", "m", "s">>, <<"1", "s", "2", "m", "s">>,
     <<"-", "1", "s">>, <<"1">>, <<"1", "x">>, <<"s">>}

\* What config.UnwrapTo(&tc) fills in, and one config it fails on.
RawConfigs ==
    {[wellTyped |-> TRUE, Schedule |-> s, DeltaStage |-> d] :
        s \in ScheduleNames, d \in DeltaStageStrings}
    \cup {[wellTyped |-> FALSE, Schedule |-> "", DeltaStage |-> <<>>]}

\* TransmissionConfig values a caller may build itself.
Configs == {[Schedule |-> s, DeltaStage |-> d] : s \in ScheduleNames, d \in {-1000, 0, 1000}}

TransmissionIDs == {"", "exec-1"}

SchedulerInit ==
    /\ ServerInit
    /\ ChangesetIdle
    /\ HealthIdle
    /\ PairIdle
    /\ HRDeployed
    /\ donPeerIDs \in PeerLists
    /\ picked \in Bijections(Len(donPeerIDs))
    /\ transmissionID \in TransmissionIDs
    /\ \/ /\ call = "request"
          /\ config \in RawConfigs
          /\ tc = ZeroConfig
       \/ /\ call = "config"
          /\ tc \in Configs
          /\ config = [wellTyped |-> TRUE, Schedule |-> "", DeltaStage |-> <<>>]
    /\ ret = NoReturn

\* A caller extracts the transmission config of a request.
CallExtractTransmissionConfig ==
    /\ call = "request"
    /\ ret = NoReturn
    /\ LET x == ExtractTransmissionConfig(config)
       IN  ret' = [fn |-> "ExtractTransmissionConfig", err |-> x.err, tc |-> x.tc,
                   isNil |-> TRUE, delays |-> EmptyMap]
    /\ UNCHANGED <<outsideScheduler, donPeerIDs, transmissionID, picked, call, config, tc>>

\* A caller asks for the delays of a request.
CallGetPeerIDToTransmissionDelay ==
    /\ call = "request"
    /\ ret = NoReturn
    /\ LET r == GetPeerIDToTransmissionDelay(donPeerIDs, config, transmissionID)
       IN  ret' = [fn |-> "GetPeerIDToTransmissionDelay", err |-> r.err,
                   tc |-> ExtractTransmissionConfig(config).tc,
                   isNil |-> r.isNil, delays |-> r.delays]
    /\ UNCHANGED <<outsideScheduler, donPeerIDs, transmissionID, picked, call, config, tc>>

\* A caller asks for the delays of a TransmissionConfig it holds.
CallGetPeerIDToTransmissionDelaysForConfig ==
    /\ call = "config"
    /\ ret = NoReturn
    /\ LET r == GetPeerIDToTransmissionDelaysForConfig(donPeerIDs, transmissionID, tc)
       IN  ret' = [fn |-> "GetPeerIDToTransmissionDelaysForConfig", err |-> r.err,
                   tc |-> tc, isNil |-> r.isNil, delays |-> r.delays]
    /\ UNCHANGED <<outsideScheduler, donPeerIDs, transmissionID, picked, call, config, tc>>

SchedulerNext ==
    \/ CallExtractTransmissionConfig
    \/ CallGetPeerIDToTransmissionDelay
    \/ CallGetPeerIDToTransmissionDelaysForConfig

SchedulerSpec == SchedulerInit /\ [][SchedulerNext]_vars

(* ----------------------------- HealthReport ---------------------------- *)

\* An error value of a health map: nil, or some error.
HealthErrors == {"nil", "unhealthy"}

\* Names the client, the queue and the persistence layer report under; each
\* service reports under names of its own.
ClientNames == {"Client", "Client.Conn"}

QueueNames == {"TransmitQueue"}

PersistenceNames == {"PersistenceManager"}

\* The health maps a service with these names may return.
HealthMaps(names) == UNION {[d -> HealthErrors] : d \in SUBSET names}

\* services.CopyHealth(dest, src): every entry of src is put into dest.
CopyHealth(dest, src) ==
    [name \in DOMAIN dest \cup DOMAIN src |->
        IF name \in DOMAIN src THEN src[name] ELSE dest[name]]

HealthReport_ClientOnly(c, qh) == CopyHealth(EmptyHealth, c)

\* func (s *server) HealthReport(): an empty map, then the client's and the
\* queue's entries copied into it.
HealthReport(c, qh) == CopyHealth(CopyHealth(EmptyHealth, c), qh)

HealthInit ==
    /\ ServerInit
    /\ ChangesetIdle
    /\ SchedulerIdle
    /\ PairIdle
    /\ HRDeployed
    /\ clientHealth \in HealthMaps(ClientNames)
    /\ queueHealth \in HealthMaps(QueueNames)
    /\ pmHealth \in HealthMaps(PersistenceNames)
    /\ report = NoReport

\* A consumer calls HealthReport().
CallHealthReport ==
    /\ ~report.returned
    /\ report' = [returned |-> TRUE, health |-> HealthReport(clientHealth, queueHealth)]
    /\ UNCHANGED <<outsideHealth, clientHealth, queueHealth, pmHealth>>

HealthNext == CallHealthReport

HealthSpec == HealthInit /\ [][HealthNext]_vars

(* --------------------------- two destinations -------------------------- *)

\* Two servers built by newServer for two destinations, in one process. Each
\* loop iteration is one step here: what it does to the server's own fields
\* and to what the servers share, the counter vectors and the ORM.
ServerURLs == {"A", "B"}

\* The destination where sends, deletes and the loops fail; the other one is
\* healthy.
FailingURL == "A"

\* The transmissions pushed to every destination: enough to fill a delete
\* channel.
PairHashes == 1 .. TransmitQueueMaxSize + 1

CounterNames == {"transmit_success_count", "transmit_connection_error_count",
                 "transmit_queue_delete_error_count"}

WithLabelValues_NoURL(name, url) == <<name, FailingURL>>

\* promX.WithLabelValues(donIDStr, serverURL): the child of vector X a server
\* increments.
WithLabelValues(name, url) == <<name, url>>

\* counter.Inc() on the child of a vector.
Inc(name, url) ==
    promVec' = [promVec EXCEPT ![WithLabelValues(name, url)] = @ + 1]

\* What a server reads as its own counter.
CounterOf(name, url) == promVec[WithLabelValues(name, url)]

\* newServer, twice, and every transmission stored and pushed to both queues.
PairInit ==
    /\ ServerInit
    /\ ChangesetIdle
    /\ SchedulerIdle
    /\ HealthIdle
    /\ HRDeployed
    /\ servers = [url \in ServerURLs |->
                     [q |-> PairHashes, deleteQueue |-> <<>>, hash |-> NoTransmission,
                      dropped |-> {}, stopped |-> FALSE]]
    /\ promVec = [key \in CounterNames \X ServerURLs |-> 0]
    /\ ormRows = ServerURLs \X PairHashes
    /\ crashed = FALSE
    /\ actor = "none"

\* An iteration of runQueueLoop that ends in a transport error: the counter
\* and the push back.
PairTransportError(url) ==
    /\ ~crashed
    /\ url = FailingURL
    /\ ~servers[url].stopped
    /\ servers[url].q # {}
    /\ CounterOf("transmit_connection_error_count", url) < MaxTransportErrors
    /\ Inc("transmit_connection_error_count", url)
    /\ actor' = url
    /\ UNCHANGED <<servers, ormRows, crashed, outsidePair>>

\* An iteration of runQueueLoop that ends in a reply: the success counter and
\* the send on the server's deleteQueue, dropped when the channel is full.
PairReply(url) ==
    /\ ~crashed
    /\ ~servers[url].stopped
    /\ \E h \in servers[url].q :
          servers' = [servers EXCEPT
              ![url].q = @ \ {h},
              ![url].deleteQueue =
                  IF Len(@) < TransmitQueueMaxSize THEN Append(@, h) ELSE @,
              ![url].dropped =
                  IF Len(servers[url].deleteQueue) < TransmitQueueMaxSize
                     THEN @ ELSE @ \cup {h}]
    /\ Inc("transmit_success_count", url)
    /\ actor' = url
    /\ UNCHANGED <<ormRows, crashed, outsidePair>>

\* An iteration of runQueueLoop whose transmission cannot be encoded: the nil
\* request is dereferenced and the process is gone.
PairEncodeError(url) ==
    /\ ~crashed
    /\ url = FailingURL
    /\ ~servers[url].stopped
    /\ servers[url].q # {}
    /\ Inc("transmit_connection_error_count", url)
    /\ crashed' = TRUE
    /\ actor' = url
    /\ UNCHANGED <<servers, ormRows, outsidePair>>

\* case hash := <-s.deleteQueue
PairTakeHash(url) ==
    /\ ~crashed
    /\ ~servers[url].stopped
    /\ servers[url].hash = NoTransmission
    /\ servers[url].deleteQueue # <<>>
    /\ servers' = [servers EXCEPT ![url].hash = Head(servers[url].deleteQueue),
                                  ![url].deleteQueue = Tail(@)]
    /\ actor' = url
    /\ UNCHANGED <<promVec, ormRows, crashed, outsidePair>>

\* s.pm.orm.Delete(ctx, [][32]byte{hash}) returns nil.
PairDeleteSucceeds(url) ==
    /\ ~crashed
    /\ ~servers[url].stopped
    /\ servers[url].hash # NoTransmission
    /\ ormRows' = ormRows \ {<<url, servers[url].hash>>}
    /\ servers' = [servers EXCEPT ![url].hash = NoTransmission]
    /\ actor' = url
    /\ UNCHANGED <<promVec, crashed, outsidePair>>

\* s.pm.orm.Delete returns an error: the counter, and the retry.
PairDeleteFails(url) ==
    /\ ~crashed
    /\ url = FailingURL
    /\ ~servers[url].stopped
    /\ servers[url].hash # NoTransmission
    /\ CounterOf("transmit_queue_delete_error_count", url) < MaxDeleteErrors
    /\ Inc("transmit_queue_delete_error_count", url)
    /\ actor' = url
    /\ UNCHANGED <<servers, ormRows, crashed, outsidePair>>

\* Both loops of the server return: its queue closed, its stop signalled.
PairLoopsExit(url) ==
    /\ ~crashed
    /\ url = FailingURL
    /\ ~servers[url].stopped
    /\ servers' = [servers EXCEPT ![url].stopped = TRUE]
    /\ actor' = url
    /\ UNCHANGED <<promVec, ormRows, crashed, outsidePair>>

PairNext ==
    \E url \in ServerURLs :
        \/ PairTransportError(url)
        \/ PairReply(url)
        \/ PairEncodeError(url)
        \/ PairTakeHash(url)
        \/ PairDeleteSucceeds(url)
        \/ PairDeleteFails(url)
        \/ PairLoopsExit(url)

PairSpec == PairInit /\ [][PairNext]_vars

(* --------------------------- HumanResources.sol ------------------------ *)

\* type(uint256).max, at the width of the integers of the model checker:
\* the arithmetic of the contract is checked, and what matters is which
\* products pass it.
MaxUint256 == 2147483647

\* address public immutable hrManagerAddress
hrManagerAddress == 1

\* msg.sender of a transaction.
Senders == Addresses \ {0}

\* Half a week passes between two blocks looked at.
Tick == WEEK \div 2

\* weeklyUsdSalary arguments: an amount the division by WEEK truncates, and
\* the largest uint256.
Salaries == {7, MaxUint256}

\* a * b in Solidity 0.8: Panic(0x11) when the product does not fit.
CheckedMul(a, b) ==
    IF a # 0 /\ b > MaxUint256 \div a
       THEN [panic |-> TRUE, value |-> 0]
       ELSE [panic |-> FALSE, value |-> a * b]

onlyHrManager_Anyone(sender) == TRUE

\* modifier onlyHrManager: passes for the HR manager.
onlyHrManager(sender) == sender = hrManagerAddress

\* modifier onlyRegisteredEmployee: passes for a sender with a record.
onlyRegisteredEmployee(sender) == employees[sender].employedSince # 0

\* modifier validAddress: passes for any address but address(0).
validAddress(account) == account # 0

_calculateSalaryAvailable_IgnoresTermination(employee) ==
    LET emp == employees[employee]
    IN  IF emp.employedSince = 0 THEN [panic |-> FALSE, value |-> 0]
        ELSE IF blockTimestamp <= emp.lastWithdrawal THEN [panic |-> FALSE, value |-> 0]
        ELSE LET product == CheckedMul(emp.weeklyUsdSalary,
                                       blockTimestamp - emp.lastWithdrawal)
             IN  IF product.panic THEN product
                 ELSE [panic |-> FALSE, value |-> product.value \div WEEK]

\* function _calculateSalaryAvailable(address employee): the value returned,
\* or the panic of the checked multiplication.
_calculateSalaryAvailable(employee) ==
    LET emp == employees[employee]
        endTime == IF emp.terminatedAt = 0 THEN blockTimestamp ELSE emp.terminatedAt
    IN  IF emp.employedSince = 0 THEN [panic |-> FALSE, value |-> 0]
        ELSE IF endTime <= emp.lastWithdrawal THEN [panic |-> FALSE, value |-> 0]
        ELSE LET product == CheckedMul(emp.weeklyUsdSalary, endTime - emp.lastWithdrawal)
             IN  IF product.panic THEN product
                 ELSE [panic |-> FALSE, value |-> product.value \div WEEK]

\* function salaryAvailable(address employee) external view
salaryAvailable(employee) == _calculateSalaryAvailable(employee)

\* function getActiveEmployeeCount() external view
getActiveEmployeeCount == activeEmployeeCount

\* How the payment of a withdrawal can end: "none" when the employee is paid,
\* or the error the transaction reverts with: USDC.transfer returned false, or
\* one of the failures of swapUSDCToETH.
PaymentOutcomes(prefersEth) ==
    IF prefersEth
       THEN {"none", "UsdcApprovalFailed", "ExcessiveSlippage", "EthTransferFailed"}
       ELSE {"none", "UsdcTransferFailed"}

\* revert: the state of the contract is what it was before the call.
Revert(fn, sender, employee, error) ==
    /\ lastCall' = [fn |-> fn, sender |-> sender, employee |-> employee,
                    error |-> error, amount |-> 0]
    /\ UNCHANGED <<employees, activeEmployeeCount>>

\* The call returns; amount is what SalaryWithdrawn was emitted with, if it was.
Return(fn, sender, employee, amount) ==
    lastCall' = [fn |-> fn, sender |-> sender, employee |-> employee,
                 error |-> "none", amount |-> amount]

CountAfterRegister_BeforeOverwrite(old, new) ==
    IF old.employedSince = 0 THEN activeEmployeeCount + 1 ELSE activeEmployeeCount

\* if (employees[employee].terminatedAt == 0) { ++activeEmployeeCount; }, read
\* after the record was overwritten.
CountAfterRegister(old, new) ==
    IF new.terminatedAt = 0 THEN activeEmployeeCount + 1 ELSE activeEmployeeCount

\* function registerEmployee(address employee, uint256 weeklyUsdSalary)
registerEmployee(sender, employee, weeklyUsdSalary) ==
    /\ IF ~onlyHrManager(sender)
          THEN Revert("registerEmployee", sender, employee, "NotAuthorized")
       ELSE IF ~validAddress(employee)
          THEN Revert("registerEmployee", sender, employee, "NotAuthorized")
       ELSE IF employees[employee].employedSince # 0 /\ employees[employee].terminatedAt = 0
          THEN Revert("registerEmployee", sender, employee, "EmployeeAlreadyRegistered")
       ELSE LET new == [prefersEth      |-> FALSE,
                        weeklyUsdSalary |-> weeklyUsdSalary,
                        employedSince   |-> blockTimestamp,
                        terminatedAt    |-> 0,
                        lastWithdrawal  |-> blockTimestamp]
            IN  /\ employees' = [employees EXCEPT ![employee] = new]
                /\ activeEmployeeCount' = CountAfterRegister(employees[employee], new)
                /\ Return("registerEmployee", sender, employee, 0)
    /\ UNCHANGED <<blockTimestamp, outsideHR>>

terminateEmployee_NoStatusCheck(sender, employee) ==
    /\ IF ~onlyHrManager(sender)
          THEN Revert("terminateEmployee", sender, employee, "NotAuthorized")
       ELSE IF ~validAddress(employee)
          THEN Revert("terminateEmployee", sender, employee, "NotAuthorized")
       ELSE IF activeEmployeeCount = 0
          THEN Revert("terminateEmployee", sender, employee, "Panic")
       ELSE /\ activeEmployeeCount' = activeEmployeeCount - 1
            /\ employees' = [employees EXCEPT ![employee].terminatedAt = blockTimestamp]
            /\ Return("terminateEmployee", sender, employee, 0)
    /\ UNCHANGED <<blockTimestamp, outsideHR>>

\* function terminateEmployee(address employee)
terminateEmployee(sender, employee) ==
    /\ IF ~onlyHrManager(sender)
          THEN Revert("terminateEmployee", sender, employee, "NotAuthorized")
       ELSE IF ~validAddress(employee)
          THEN Revert("terminateEmployee", sender, employee, "NotAuthorized")
       ELSE IF employees[employee].employedSince = 0 \/ employees[employee].terminatedAt # 0
          THEN Revert("terminateEmployee", sender, employee, "EmployeeNotRegistered")
       ELSE IF activeEmployeeCount = 0
          THEN Revert("terminateEmployee", sender, employee, "Panic")
       ELSE /\ activeEmployeeCount' = activeEmployeeCount - 1
            /\ employees' = [employees EXCEPT ![employee].terminatedAt = blockTimestamp]
            /\ Return("terminateEmployee", sender, employee, 0)
    /\ UNCHANGED <<blockTimestamp, outsideHR>>

\* function withdrawSalary(); payment is how the transfer or the swap ends.
withdrawSalary(sender, payment) ==
    /\ LET available == _calculateSalaryAvailable(sender)
       IN  IF ~onlyRegisteredEmployee(sender)
              THEN Revert("withdrawSalary", sender, sender, "EmployeeNotRegistered")
           ELSE IF available.panic
              THEN Revert("withdrawSalary", sender, sender, "Panic")
           ELSE IF available.value = 0
              THEN Revert("withdrawSalary", sender, sender, "NoSalaryAvailable")
           ELSE IF payment # "none"
              THEN Revert("withdrawSalary", sender, sender, payment)
           ELSE /\ employees' = [employees EXCEPT ![sender].lastWithdrawal = blockTimestamp]
                /\ activeEmployeeCount' = activeEmployeeCount
                /\ Return("withdrawSalary", sender, sender, available.value)
    /\ UNCHANGED <<blockTimestamp, outsideHR>>

\* The record of msg.sender as the callee of the external transfer of
\* switchCurrency sees it: emp.lastWithdrawal = block.timestamp is already
\* written, and emp.prefersEth is not yet flipped.
DuringPayment(sender) == [employees[sender] EXCEPT !.lastWithdrawal = blockTimestamp]

switchCurrency_TerminatedMaySwitch(sender, payment) ==
    /\ LET available == _calculateSalaryAvailable(sender)
       IN  IF ~onlyRegisteredEmployee(sender)
              THEN Revert("switchCurrency", sender, sender, "EmployeeNotRegistered")
           ELSE IF available.panic
              THEN Revert("switchCurrency", sender, sender, "Panic")
           ELSE IF available.value > 0 /\ payment # "none"
              THEN Revert("switchCurrency", sender, sender, payment)
           ELSE /\ employees' = [employees EXCEPT
                       ![sender].lastWithdrawal =
                           IF available.value > 0 THEN blockTimestamp ELSE @,
                       ![sender].prefersEth = ~@]
                /\ activeEmployeeCount' = activeEmployeeCount
                /\ Return("switchCurrency", sender, sender, available.value)
    /\ UNCHANGED <<blockTimestamp, outsideHR>>

\* function switchCurrency()
switchCurrency(sender, payment) ==
    /\ LET available == _calculateSalaryAvailable(sender)
       IN  IF ~onlyRegisteredEmployee(sender)
              THEN Revert("switchCurrency", sender, sender, "EmployeeNotRegistered")
           ELSE IF employees[sender].terminatedAt # 0
              THEN Revert("switchCurrency", sender, sender, "NotAuthorized")
           ELSE IF available.panic
              THEN Revert("switchCurrency", sender, sender, "Panic")
           ELSE IF available.value > 0 /\ payment # "none"
              THEN Revert("switchCurrency", sender, sender, payment)
           ELSE /\ employees' = [employees EXCEPT
                       ![sender].lastWithdrawal =
                           IF available.value > 0 THEN blockTimestamp ELSE @,
                       ![sender].prefersEth = ~@]
                /\ activeEmployeeCount' = activeEmployeeCount
                /\ Return("switchCurrency", sender, sender, available.value)
    /\ UNCHANGED <<blockTimestamp, outsideHR>>

\* A later block: block.timestamp has advanced.
AdvanceTime ==
    /\ blockTimestamp < DeployedAt + MaxTicks * Tick
    /\ blockTimestamp' = blockTimestamp + Tick
    /\ UNCHANGED <<employees, activeEmployeeCount, lastCall, outsideHR>>

HRInit ==
    /\ ServerInit /\ SchedulerIdle /\ HealthIdle /\ PairIdle /\ HRDeployed
    /\ ChangesetIdle

HRNext ==
    \/ \E sender \in Senders, employee \in Addresses, salary \in Salaries :
           registerEmployee(sender, employee, salary)
    \/ \E sender \in Senders, employee \in Addresses :
           terminateEmployee(sender, employee)
    \/ \E sender \in Senders :
           \E payment \in PaymentOutcomes(employees[sender].prefersEth) :
               withdrawSalary(sender, payment)
    \/ \E sender \in Senders :
           \E payment \in PaymentOutcomes(employees[sender].prefersEth) :
               switchCurrency(sender, payment)
    \/ AdvanceTime

HRSpec == HRInit /\ [][HRNext]_vars

(* -------------------- NewTransferOwnershipChangeset -------------------- *)

\* The lists of ownership transferrers a configuration may give for a chain:
\* contracts of that chain, at most two entries, the same one twice at most.
ContractLists(chainSelector) ==
    LET on == {c \in ContractNames : ChainOf(c) = chainSelector} IN
    UNION {[1 .. n -> on] : n \in 0 .. 2}

\* The values of TransferOwnershipConfig: timelocks for some chains, contracts
\* for some chains.
TransferOwnershipConfigs ==
    UNION {[TimelocksPerChain : {[c \in tl |-> TimelockOf(c)]},
            Contracts : {m \in [cs -> UNION {ContractLists(c) : c \in ChainSelectors}] :
                            \A c \in cs : m[c] \in ContractLists(c)}] :
           tl \in SUBSET ChainSelectors, cs \in SUBSET ChainSelectors}

\* func (t TransferOwnershipConfig) Validate() error
Validate(c) ==
    IF \E chainSelector \in DOMAIN c.Contracts :
          chainSelector \notin DOMAIN c.TimelocksPerChain
    THEN "missing timelock"
    ELSE "nil"

\* The orders `for chainSelector := range cfg.Contracts` may visit the keys in.
RangeOrders(keys) ==
    {o \in [1 .. Cardinality(keys) -> keys] : \A i, j \in DOMAIN o : o[i] = o[j] => i = j}

\* The contracts of the configuration in the order the two loops visit them.
RECURSIVE Visits(_, _)
Visits(c, order) ==
    IF order = <<>> THEN <<>>
    ELSE [i \in 1 .. Len(c.Contracts[Head(order)]) |->
             [chainSelector |-> Head(order), contract |-> c.Contracts[Head(order)][i]]]
         \o Visits(c, Tail(order))

\* How the calls made for a contract end: both succeed, Owner returns an
\* error, TransferOwnership returns one, or the transaction is not confirmed.
RPCOutcomes == {"ok", "ownerErr", "transferErr", "confirmErr"}

\* A confirmed TransferOwnership(newOwner) sent by the owner: the contract
\* makes newOwner its owner, or, when ownership has to be accepted, its
\* pending owner.
TransferOwnership(contract, newOwner) ==
    IF contract.twoStep
    THEN [contract EXCEPT !.pendingOwner = newOwner]
    ELSE [contract EXCEPT !.owner = newOwner]

\* What a run of the changeset has done so far.
Started(chain) == [onchain |-> chain, sent |-> <<>>, err |-> "nil"]

TransferOne_WhoeverOwns(c, v, rpc, st) ==
    LET timelock == c.TimelocksPerChain[v.chainSelector]
        tx == [chainSelector |-> v.chainSelector, contract |-> v.contract,
               newOwner |-> timelock]
    IN  IF rpc[v.contract] = "ownerErr"
        THEN [st EXCEPT !.err = "failed to get owner"]
        ELSE IF rpc[v.contract] = "transferErr"
             THEN [st EXCEPT !.err = "failed to transfer ownership"]
             ELSE IF rpc[v.contract] = "confirmErr"
                  THEN [st EXCEPT !.sent = Append(@, tx),
                                  !.err = "failed to transfer ownership"]
                  ELSE [st EXCEPT !.sent = Append(@, tx),
                                  !.onchain[v.contract] = TransferOwnership(@, timelock)]

\* The body of the inner loop for one contract.
TransferOne(c, v, rpc, st) ==
    LET timelock == c.TimelocksPerChain[v.chainSelector]
        owner == st.onchain[v.contract].owner
        tx == [chainSelector |-> v.chainSelector, contract |-> v.contract,
               newOwner |-> timelock]
    IN  IF rpc[v.contract] = "ownerErr"
        THEN [st EXCEPT !.err = "failed to get owner"]
        ELSE IF owner = timelock
             THEN st
             ELSE IF rpc[v.contract] = "transferErr"
                  THEN [st EXCEPT !.err = "failed to transfer ownership"]
                  ELSE IF rpc[v.contract] = "confirmErr"
                       THEN [st EXCEPT !.sent = Append(@, tx),
                                       !.err = "failed to transfer ownership"]
                       ELSE [st EXCEPT !.sent = Append(@, tx),
                                       !.onchain[v.contract] =
                                           TransferOwnership(@, timelock)]

\* The two loops: contract after contract, until one returns an error.
RECURSIVE TransferAll(_, _, _, _)
TransferAll(c, visits, rpc, st) ==
    IF visits = <<>> \/ st.err # "nil" THEN st
    ELSE TransferAll(c, Tail(visits), rpc, TransferOne(c, Head(visits), rpc, st))

\* func NewTransferOwnershipChangeset(e, cfg)
NewTransferOwnershipChangeset(c, chain, order, rpc) ==
    IF Validate(c) # "nil"
    THEN [Started(chain) EXCEPT !.err = Validate(c)]
    ELSE TransferAll(c, Visits(c, order), rpc, Started(chain))

\* The contracts are deployed, some of them handed to the timelock of their
\* chain already, and a configuration is written.
ChangesetInit ==
    /\ ServerInit
    /\ SchedulerIdle
    /\ HealthIdle
    /\ PairIdle
    /\ HRDeployed
    /\ transferCfg \in TransferOwnershipConfigs
    /\ onchain \in [ContractNames ->
                       [owner : {DeployerKey} \cup {TimelockOf(c) : c \in ChainSelectors},
                        pendingOwner : {ZeroAddress}, twoStep : BOOLEAN]]
    /\ \A contract \in ContractNames :
          onchain[contract].owner \in {DeployerKey, TimelockOf(ChainOf(contract))}
    /\ applications = <<>>

\* The changeset is applied.
ApplyChangeset ==
    /\ Len(applications) < MaxApplications
    /\ \E order \in RangeOrders(DOMAIN transferCfg.Contracts),
          rpc \in [ContractNames -> RPCOutcomes] :
          LET out == NewTransferOwnershipChangeset(transferCfg, onchain, order, rpc) IN
          /\ onchain' = out.onchain
          /\ applications' = Append(applications, [err |-> out.err, sent |-> out.sent])
    /\ UNCHANGED <<outsideChangeset, transferCfg>>

\* The proposed owner of a contract accepts the ownership.
AcceptOwnership ==
    /\ \E contract \in ContractNames :
          /\ onchain[contract].pendingOwner # ZeroAddress
          /\ onchain' = [onchain EXCEPT ![contract] =
                            [owner |-> onchain[contract].pendingOwner,
                             pendingOwner |-> ZeroAddress,
                             twoStep |-> onchain[contract].twoStep]]
    /\ UNCHANGED <<outsideChangeset, transferCfg, applications>>

ChangesetNext ==
    \/ ApplyChangeset
    \/ AcceptOwnership

ChangesetSpec == ChangesetInit /\ [][ChangesetNext]_vars

(* ------------------------------- claims -------------------------------- *)

\* Elements of a sequence.
Range(seq) == {seq[i] : i \in 1 .. Len(seq)}

\* Hashes whose deletion has been requested: in the channel, dropped on a full
\* channel, or taken by the delete loop.
DeletionRequested ==
    Range(deleteQueue) \cup dropped \cup (IF hash = NoTransmission THEN {} ELSE {hash})

\* A step of runQueueLoop that handles what s.transmit returned.
HandlesSend == tpc = "sent" /\ tpc' # tpc

\* The hash h is offered to the delete channel: received by the parked delete
\* loop, enqueued, or dropped when the channel is full.
Offered(h) ==
    IF ReceiverParked
       THEN hash' = h /\ deleteQueue' = deleteQueue /\ dropped' = dropped
       ELSE IF Len(deleteQueue) < TransmitQueueMaxSize
               THEN deleteQueue' = Append(deleteQueue, h) /\ dropped' = dropped
               ELSE deleteQueue' = deleteQueue /\ dropped' = dropped \cup {h}

\* C1: a send that failed with a transport error, with the loop's context live
\* and the queue open, increments the connection-error counter by one and
\* pushes the same record back before the backoff wait, at every attempt; no
\* deletion is requested by such a step, and a record that never got a reply
\* is never requested for deletion.
C1_TransportErrorRequeues ==
    /\ [][(HandlesSend /\ res \in TransportErrors /\ ~ctxDone /\ ~qClosed) =>
            /\ transmitConnectionErrorCount' = transmitConnectionErrorCount + 1
            /\ t \notin q
            /\ q' = q \cup {t}
            /\ t' = t
            /\ tpc' = "backoff"
            /\ deleteQueue' = deleteQueue
            /\ dropped' = dropped
            /\ UNCHANGED <<transmitSuccessCount, transmitDuplicateCount,
                           promTransmitServerErrorCount>>]_vars
    /\ [](DeletionRequested \subseteq replied)

\* A record has failed MaxTransportErrors sends in a row and is back on the
\* queue each time, with no shutdown.
C1_Witness ==
    /\ tpc = "backoff"
    /\ ~stopCh
    /\ tb = MaxTransportErrors
    /\ transmitConnectionErrorCount = MaxTransportErrors
    /\ t \in q
    /\ DeletionRequested = {}

\* C2 as stated: every reply carrying the duplicate-report code increments the
\* success and the duplicate counter once each, offers the hash to the delete
\* channel and does not push the record back.
C2_DuplicateCodeCounted ==
    [][(HandlesSend /\ res \in Replies /\ res.Code = DuplicateReport /\ ~ctxDone) =>
          /\ transmitSuccessCount' = transmitSuccessCount + 1
          /\ transmitDuplicateCount' = transmitDuplicateCount + 1
          /\ Offered(t)
          /\ q' = q]_vars

\* C2 amended: a reply with a non-empty Error and the duplicate-report code
\* increments the success and the duplicate counter once each (and no other
\* counter), offers the hash to the delete channel and does not push the
\* record back; with an empty Error the reply is a plain success whatever its
\* code, and only the success counter is incremented.
C2_DuplicateErrorCounted ==
    /\ [][(HandlesSend /\ res \in Replies /\ res.Error /\ res.Code = DuplicateReport
             /\ ~ctxDone) =>
            /\ transmitSuccessCount' = transmitSuccessCount + 1
            /\ transmitDuplicateCount' = transmitDuplicateCount + 1
            /\ UNCHANGED <<transmitConnectionErrorCount, promTransmitServerErrorCount>>
            /\ Offered(t)
            /\ t \notin q'
            /\ q' = q]_vars
    /\ [][(HandlesSend /\ res \in Replies /\ ~res.Error /\ ~ctxDone) =>
            /\ transmitSuccessCount' = transmitSuccessCount + 1
            /\ UNCHANGED <<transmitDuplicateCount, transmitConnectionErrorCount,
                           promTransmitServerErrorCount>>]_vars

\* One duplicate reply has been handled: both counters read 1 and its hash is
\* in the delete channel.
C2_Witness ==
    /\ transmitDuplicateCount = 1
    /\ transmitSuccessCount = 1
    /\ outcome = "deleteRequested"
    /\ Len(deleteQueue) = 1
    /\ deleteQueue[1] \notin q

\* C3: a reply with a non-duplicate server-side error is not retried: the
\* counter of its code is incremented by one and no other counter changes, the
\* record is not pushed back, and its hash is offered to the delete channel;
\* and the only step that puts a popped record back on the queue is the
\* handling of a send that failed with a transport error.
C3_ServerErrorNotRetried ==
    /\ [][(HandlesSend /\ res \in Replies /\ res.Error /\ res.Code # DuplicateReport
             /\ ~ctxDone) =>
            /\ promTransmitServerErrorCount' =
                  [promTransmitServerErrorCount EXCEPT ![res.Code] = @ + 1]
            /\ UNCHANGED <<transmitSuccessCount, transmitDuplicateCount,
                           transmitConnectionErrorCount>>
            /\ q' = q
            /\ t \notin q'
            /\ Offered(t)
            /\ tpc' = "pop"]_vars
    /\ [][\A h \in q' \ q :
            \/ h = nextHash /\ nextHash' = nextHash + 1
            \/ h = t /\ tpc = "sent" /\ res \in TransportErrors]_vars

\* A server error has been counted and the record's hash is in the delete
\* channel, the record not being on the queue.
C3_Witness ==
    /\ promTransmitServerErrorCount["OtherCode"] = 1
    /\ outcome = "deleteRequested"
    /\ Len(deleteQueue) = 1
    /\ deleteQueue[1] \notin q
    /\ transmitSuccessCount = 0

\* C4: a record with an unrecognized format fails its send without a call to
\* the network client and is handled as a server-returned error is: it is not
\* pushed back, it is not counted as a connection error, and the loop goes on
\* to its next pop.
C4_UnsupportedFormatAsServerError ==
    [][(HandlesSend /\ ReportFormat(t) = "unsupported" /\ ~ctxDone) =>
          /\ t \notin netCalled'
          /\ t \notin q'
          /\ transmitConnectionErrorCount' = transmitConnectionErrorCount
          /\ tpc' = "pop"]_vars

\* C5: no error of the delivery pipeline makes a worker panic.
C5_NoWorkerPanics == tpc # "panicked"

\* C6: when orm.Delete succeeds for the hash taken from the channel after
\* deleteFails failures, it has been called deleteFails + 1 times for that
\* hash, the delete-error counter has grown by deleteFails since the hash was
\* taken, and the hash is removed; and until then, without shutdown, every
\* backoff wait ends in another attempt for the same hash.
C6_DeleteRetriedUntilSuccess ==
    /\ [][(dpc = "deleting" /\ dpc' = "wait") =>
            /\ deleteCalls = deleteFails + 1
            /\ transmitQueueDeleteErrorCount' = errCountAtTake + deleteFails
            /\ hash \notin stored'
            /\ hash' = hash]_vars
    /\ [][(dpc = "backoff" /\ dpc' # dpc /\ ~stopCh) =>
            /\ dpc' = "deleting"
            /\ hash' = hash
            /\ deleteCalls' = deleteCalls + 1]_vars
    /\ [](dpc \in {"deleting", "backoff"} =>
            transmitQueueDeleteErrorCount = errCountAtTake + deleteFails)

\* Delete failed twice and then succeeded for the first hash, with no shutdown.
C6_Witness ==
    /\ dpc = "wait"
    /\ ~stopCh
    /\ hash # NoTransmission
    /\ hash \notin stored
    /\ deleteFails = 2
    /\ deleteCalls = 3
    /\ errCountAtTake = 0
    /\ transmitQueueDeleteErrorCount = 2

\* C7: the delete channel never holds more than TransmitQueueMaxSize hashes;
\* the handling of a reply is never blocked by it; and with the channel full
\* the request is dropped, the record is not requeued and the loop goes to
\* its next pop.
C7_DeleteHandOffNeverBlocks ==
    /\ [](Len(deleteQueue) <= TransmitQueueMaxSize)
    /\ []((tpc = "sent" /\ res \in Replies /\ ~ctxDone) => ENABLED HandleReply)
    /\ [][(HandlesSend /\ res \in Replies /\ ~ctxDone
             /\ Len(deleteQueue) = TransmitQueueMaxSize) =>
            /\ deleteQueue' = deleteQueue
            /\ dropped' = dropped \cup {t}
            /\ q' = q
            /\ t \notin q'
            /\ tpc' = "pop"]_vars

\* A deletion request has been dropped on a full channel and the loop is back
\* at its pop.
C7_Witness ==
    /\ outcome = "deleteDropped"
    /\ dropped # {}
    /\ Len(deleteQueue) = TransmitQueueMaxSize
    /\ tpc = "pop"
    /\ dropped \cap q = {}

\* The transmit loop is blocked in BlockingPop on an empty queue after the
\* shutdown signal.
BlockedOnEmptyQueue == tpc = "pop" /\ q = {} /\ stopCh

\* C8: a transmit loop blocked in BlockingPop on an empty queue when shutdown
\* is signalled returns (unless a new record arrives first), and the step that
\* takes it out of the pop on a closed queue ends the loop without a panic.
C8_ShutdownUnblocksPop ==
    /\ BlockedOnEmptyQueue ~> (tpc = "done" \/ q # {})
    /\ [][(tpc = "pop" /\ qClosed /\ tpc' # tpc) =>
            /\ tpc' = "done"
            /\ transmitThreadBusyCount' = 0]_vars

\* The loop has returned from a pop on a queue that never held a record.
C8_Witness ==
    /\ tpc = "done"
    /\ outcome = "closed"
    /\ nextHash = 1
    /\ stopCh

\* C9: when the loop's context is cancelled at the time it looks at what the
\* send returned, the loop returns at once, whatever the send returned: the
\* record is not pushed back, no deletion is requested and no counter changes.
C9_CancelAbandonsRecord ==
    [][(HandlesSend /\ ctxDone) =>
          /\ tpc' = "done"
          /\ q' = q
          /\ t \notin q'
          /\ deleteQueue' = deleteQueue
          /\ dropped' = dropped
          /\ UNCHANGED <<transmitSuccessCount, transmitDuplicateCount,
                         transmitConnectionErrorCount,
                         promTransmitServerErrorCount>>]_vars

\* A record that got a reply was abandoned on shutdown: nothing was counted
\* and no deletion was requested.
C9_Witness ==
    /\ tpc = "done"
    /\ outcome = "abandoned"
    /\ replied # {}
    /\ replied \cap q = {}
    /\ DeletionRequested = {}
    /\ transmitSuccessCount = 0
    /\ promTransmitServerErrorCount = [c \in Codes |-> 0]

\* The delete loop is blocked in one of its two selects.
DeleteLoopWaiting == dpc \in {"parked", "backoff"}

\* C18: when stopCh is closed while the delete loop is blocked, parked on the
\* delete channel or in the backoff wait after a failed Delete, the loop can
\* return, and its next step is that return: it takes nothing from the
\* channel and calls Delete no more for the hash it was retrying; and once it
\* has returned it takes no hash and calls no Delete.
C18_StopEndsDeleteLoop ==
    /\ []((Alive /\ stopCh /\ dpc = "parked") => ENABLED IdleStopped)
    /\ []((Alive /\ stopCh /\ dpc = "backoff") => ENABLED DeleteBackoffStopped)
    /\ [][(DeleteLoopWaiting /\ stopCh /\ dpc' # dpc) =>
            /\ dpc' = "done"
            /\ hash' = hash
            /\ deleteCalls' = deleteCalls
            /\ stored' = stored
            /\ Len(deleteQueue') >= Len(deleteQueue)]_vars
    /\ [][dpc = "done" =>
            /\ dpc' = "done"
            /\ hash' = hash
            /\ deleteCalls' = deleteCalls
            /\ stored \subseteq stored'
            /\ Len(deleteQueue') >= Len(deleteQueue)]_vars

\* The loop returned from a backoff wait: the hash it was retrying is still
\* stored, every Delete called for it failed, and a hash remains in the channel.
C18_Witness ==
    /\ dpc = "done"
    /\ deleteFails >= 1
    /\ deleteCalls = deleteFails
    /\ hash \in stored
    /\ deleteQueue # <<>>
    /\ deleteThreadBusyCount = 0

\* C19: after the shutdown signal neither loop accepts new work: once stopCh
\* is closed no hash is taken from the delete channel, once the transmit
\* loop's context is cancelled no send is handled to completion, and a loop
\* that has returned stays returned, so each abandons at most one item.
C19_NoNewWorkAfterStop ==
    /\ [][stopCh => Len(deleteQueue') >= Len(deleteQueue)]_vars
    /\ [][(ctxDone /\ HandlesSend) =>
            /\ tpc' = "done"
            /\ UNCHANGED <<counterVars, deleteQueue, dropped>>]_vars
    /\ [][(tpc = "done" => tpc' = "done") /\ (dpc = "done" => dpc' = "done")]_vars

\* The delete loop holds a hash whose Delete is in progress or being retried.
DeleteRetrying == dpc \in {"deleting", "backoff"}

\* Replies runQueueLoop has classified.
RepliesCounted ==
    transmitSuccessCount + promTransmitServerErrorCount["DuplicateReport"]
        + promTransmitServerErrorCount["OtherCode"]

\* C20: while the delete loop is retrying a failing Delete, the transmit loop
\* is not blocked by it: it can pop a queued record, send it, and handle the
\* reply; and handling the reply classifies it, requests the deletion of the
\* record (or drops the request on a full channel), goes on to the next pop
\* and leaves the delete loop where it was.
C20_FailingDeleteNeverBlocksTransmit ==
    /\ []((DeleteRetrying /\ Alive /\ tpc = "pop" /\ q # {} /\ ~qClosed) =>
            ENABLED PopTransmission)
    /\ []((DeleteRetrying /\ tpc = "sending" /\ ReportFormat(t) # "unsupported") =>
            ENABLED TransmitCallsClient)
    /\ []((DeleteRetrying /\ tpc = "sent" /\ res \in Replies /\ ~ctxDone) =>
            ENABLED HandleReply)
    /\ [][(DeleteRetrying /\ HandlesSend /\ res \in Replies /\ ~ctxDone) =>
            /\ RepliesCounted' = RepliesCounted + 1
            /\ t \in DeletionRequested'
            /\ t \notin q'
            /\ tpc' = "pop"
            /\ UNCHANGED deleteVars]_vars

\* Delete has failed for the first hash at every call so far, and meanwhile a
\* second record was sent and classified and its hash is in the channel.
C20_Witness ==
    /\ dpc = "backoff"
    /\ deleteFails >= 1
    /\ deleteCalls = deleteFails
    /\ hash \in stored
    /\ RepliesCounted = 2
    /\ Len(deleteQueue) = 1
    /\ tpc = "pop"
    /\ ~stopCh

\* ret is the return of a call that produced a peer-to-delay map.
ReturnedMap == ret.fn \in {"GetPeerIDToTransmissionDelay",
                           "GetPeerIDToTransmissionDelaysForConfig"} /\ ret.err = "nil"

\* No peer ID occurs twice in the list.
Distinct(l) == \A i, j \in 1 .. Len(l) : l[i] = l[j] => i = j

\* Entries of the map m whose delay is v.
PeersDelayedBy(m, v) == {p \in DOMAIN m : m[p] = v}

\* C11: for the oneAtATime schedule, N distinct peers and DeltaStage d, the
\* result map holds every peer, the peer at position i has the delay
\* picked[i] * d, and the delays are, as a multiset, {0, d, ..., (N-1)d}:
\* every value occurs in the map as often as among the k * d, k < N.
C11_OneAtATimeDelays ==
    (ReturnedMap /\ ret.tc.Schedule = Schedule_OneAtATime /\ Distinct(donPeerIDs)) =>
        LET N == Len(donPeerIDs)
            d == ret.tc.DeltaStage
            m == ret.delays
        IN  /\ ~ret.isNil
            /\ DOMAIN m = Range(donPeerIDs)
            /\ Cardinality(DOMAIN m) = N
            /\ \A i \in 1 .. N : m[donPeerIDs[i]] = picked[i] * d
            /\ \A k \in 0 .. N - 1 :
                  Cardinality(PeersDelayedBy(m, k * d)) =
                      Cardinality({j \in 0 .. N - 1 : j * d = k * d})

\* Three distinct peers were scheduled one at a time with a stage of one
\* second under a permutation that is not the identity: the delays are 0, 1s
\* and 2s, one peer each.
C11_Witness ==
    /\ ReturnedMap
    /\ ret.tc = [Schedule |-> Schedule_OneAtATime, DeltaStage |-> 1000]
    /\ Len(donPeerIDs) = 3
    /\ Distinct(donPeerIDs)
    /\ picked = <<2, 0, 1>>
    /\ ret.delays[donPeerIDs[1]] = 2000
    /\ ret.delays[donPeerIDs[2]] = 0
    /\ ret.delays[donPeerIDs[3]] = 1000

\* C12 as stated: for the allAtOnce schedule every peer of the list has delay
\* 0 and the result map has as many entries as the list.
C12_AllAtOnceSizeIsLength ==
    (ReturnedMap /\ ret.tc.Schedule = Schedule_AllAtOnce) =>
        /\ \A i \in 1 .. Len(donPeerIDs) :
              donPeerIDs[i] \in DOMAIN ret.delays /\ ret.delays[donPeerIDs[i]] = 0
        /\ Cardinality(DOMAIN ret.delays) = Len(donPeerIDs)

\* C12 amended: for the allAtOnce schedule, every peer list and every
\* DeltaStage, the result map holds exactly the peer IDs of the list, each
\* with delay 0: its size is the number of distinct peer IDs, which is the
\* length of the list when no peer ID occurs twice.
C12_AllAtOnceZeroDelay ==
    (ReturnedMap /\ ret.tc.Schedule = Schedule_AllAtOnce) =>
        /\ ~ret.isNil
        /\ DOMAIN ret.delays = Range(donPeerIDs)
        /\ \A p \in DOMAIN ret.delays : ret.delays[p] = 0
        /\ Distinct(donPeerIDs) => Cardinality(DOMAIN ret.delays) = Len(donPeerIDs)

\* A list of three entries naming two peers was scheduled all at once with a
\* stage of one second: the map has two entries, both with delay 0.
C12_Witness ==
    /\ ReturnedMap
    /\ ret.tc = [Schedule |-> Schedule_AllAtOnce, DeltaStage |-> 1000]
    /\ Len(donPeerIDs) = 3
    /\ Cardinality(DOMAIN ret.delays) = 2
    /\ \A p \in DOMAIN ret.delays : ret.delays[p] = 0

\* A call on a request has returned.
RequestReturned ==
    ret.fn \in {"ExtractTransmissionConfig", "GetPeerIDToTransmissionDelay"}

\* The request names neither a schedule nor a DeltaStage.
ConfigEmpty == config.Schedule = "" /\ config.DeltaStage = <<>>

\* C13 as stated: whenever the DeltaStage string of the request does not parse
\* as a duration, the call returns an error, with a nil map and no entry.
C13_UnparseableDeltaStageFails ==
    (RequestReturned /\ ~ParseDuration(config.DeltaStage).ok) =>
        /\ ret.err # "nil"
        /\ ret.isNil
        /\ ret.delays = EmptyMap

\* C13 amended: when the DeltaStage string of a well-typed request does not
\* parse as a duration, and the request is not the one with both Schedule and
\* DeltaStage empty, ExtractTransmissionConfig returns the parse error with a
\* zero config, and GetPeerIDToTransmissionDelay returns it with a nil map
\* and no entry; the request with both empty gets no error at the extraction.
C13_ParseErrorFailsCall ==
    (RequestReturned /\ config.wellTyped /\ ~ParseDuration(config.DeltaStage).ok) =>
        IF ConfigEmpty
           THEN ret.fn = "ExtractTransmissionConfig" => ret.err = "nil"
           ELSE /\ ret.err = "parse"
                /\ ret.tc = ZeroConfig
                /\ ret.isNil
                /\ ret.delays = EmptyMap

\* GetPeerIDToTransmissionDelay was called for three peers and a valid ID with
\* the oneAtATime schedule and the DeltaStage "1x": it returned the parse
\* error and a nil map.
C13_Witness ==
    /\ ret.fn = "GetPeerIDToTransmissionDelay"
    /\ config = [wellTyped |-> TRUE, Schedule |-> Schedule_OneAtATime,
                 DeltaStage |-> <<"1", "x">>]
    /\ Len(donPeerIDs) = 3
    /\ ValidateWorkflowOrExecutionID(transmissionID)
    /\ ret.err = "parse"
    /\ ret.isNil

\* C14: ExtractTransmissionConfig returns a config only with a non-negative
\* DeltaStage, a DeltaStage string that parses as a negative duration being
\* rejected with an error; and no delay of a returned map is negative.
C14_NegativeDeltaStageRejected ==
    /\ (RequestReturned /\ config.wellTyped /\ ParseDuration(config.DeltaStage).ok
           /\ ParseDuration(config.DeltaStage).d < 0) => ret.err # "nil"
    /\ (RequestReturned /\ ret.err = "nil") => ret.tc.DeltaStage >= 0
    /\ ReturnedMap => \A p \in DOMAIN ret.delays : ret.delays[p] >= 0

KnownSchedules == {Schedule_AllAtOnce, Schedule_OneAtATime}

\* C15: GetPeerIDToTransmissionDelaysForConfig called with a schedule name
\* other than "allAtOnce" and "oneAtATime", the empty name included, returns
\* the unknown-schedule error and a nil map, for every peer list, ID and
\* DeltaStage, and returns no error for the two names; and a request whose
\* extracted config carries such a name gets an error and a nil map from
\* GetPeerIDToTransmissionDelay.
C15_UnknownScheduleFails ==
    /\ ret.fn = "GetPeerIDToTransmissionDelaysForConfig" =>
          IF tc.Schedule \in KnownSchedules
             THEN ret.err = "nil" /\ ~ret.isNil
             ELSE ret.err = "unknown schedule" /\ ret.isNil /\ ret.delays = EmptyMap
    /\ (/\ ret.fn = "GetPeerIDToTransmissionDelay"
        /\ ExtractTransmissionConfig(config).err = "nil"
        /\ ret.tc.Schedule \notin KnownSchedules) =>
          /\ ret.err \in {"unknown schedule", "invalid id"}
          /\ ret.isNil
          /\ ret.delays = EmptyMap

\* The call with the empty schedule name, three peers and a stage of one
\* second returned the unknown-schedule error and a nil map.
C15_Witness ==
    /\ ret.fn = "GetPeerIDToTransmissionDelaysForConfig"
    /\ tc = [Schedule |-> "", DeltaStage |-> 1000]
    /\ Len(donPeerIDs) = 3
    /\ ret.err = "unknown schedule"
    /\ ret.isNil

\* C16: for a request whose config has neither Schedule nor DeltaStage,
\* ExtractTransmissionConfig returns {allAtOnce, 0} without error, and
\* GetPeerIDToTransmissionDelay, given a valid execution ID, returns a map
\* that holds every peer of the list with delay 0.
C16_EmptyConfigDefaultsToAllAtOnce ==
    (RequestReturned /\ config.wellTyped /\ ConfigEmpty) =>
        /\ ret.tc = [Schedule |-> Schedule_AllAtOnce, DeltaStage |-> 0]
        /\ ret.fn = "ExtractTransmissionConfig" => ret.err = "nil"
        /\ ret.fn = "GetPeerIDToTransmissionDelay" =>
              IF ValidateWorkflowOrExecutionID(transmissionID)
                 THEN /\ ret.err = "nil"
                      /\ ~ret.isNil
                      /\ DOMAIN ret.delays = Range(donPeerIDs)
                      /\ \A p \in DOMAIN ret.delays : ret.delays[p] = 0
                 ELSE ret.err = "invalid id" /\ ret.isNil

\* A request with an empty config, three distinct peers and a valid ID got a
\* map of three entries, all with delay 0.
C16_Witness ==
    /\ ret.fn = "GetPeerIDToTransmissionDelay"
    /\ config.wellTyped
    /\ ConfigEmpty
    /\ ret.err = "nil"
    /\ Len(donPeerIDs) = 3
    /\ Cardinality(DOMAIN ret.delays) = 3
    /\ \A p \in DOMAIN ret.delays : ret.delays[p] = 0

RECURSIVE SumSeq(_)
SumSeq(sq) == IF sq = <<>> THEN 0 ELSE Head(sq) + SumSeq(Tail(sq))

\* C17: for the length N of every peer list and both schedule names, the
\* shape built by createTransmissionSchedule has no error and sums to N, and
\* delayFor returns a delay for every position under the permutation picked;
\* so every peer of the list is in the map a scheduling call returns, which
\* has N entries when the peers are distinct.
C17_NoPeerOmitted ==
    LET N == Len(donPeerIDs)
    IN  /\ \A name \in KnownSchedules :
              LET s == createTransmissionSchedule(name, N)
              IN  /\ ~s.err
                  /\ SumSeq(s.sch) = N
                  /\ \A i \in 0 .. N - 1 :
                        ~delayFor(i, s.sch, picked, tc.DeltaStage).isNil
        /\ ReturnedMap =>
              /\ Range(donPeerIDs) \subseteq DOMAIN ret.delays
              /\ Distinct(donPeerIDs) => Cardinality(DOMAIN ret.delays) = N

\* A call for three distinct peers, one at a time, returned a map in which
\* the peer of the last rank, and every other, has its delay.
C17_Witness ==
    /\ ret.fn = "GetPeerIDToTransmissionDelaysForConfig"
    /\ ret.err = "nil"
    /\ tc = [Schedule |-> Schedule_OneAtATime, DeltaStage |-> 1000]
    /\ Len(donPeerIDs) = 3
    /\ picked[1] = 2
    /\ ret.delays[donPeerIDs[1]] = 2000
    /\ Cardinality(DOMAIN ret.delays) = 3

\* The outcome of a reply, tried in this order: Success for an empty Error,
\* DuplicateSuccess for the duplicate code, ServerError for anything else.
ReplyOutcome(r) ==
    IF ~r.Error THEN "Success"
    ELSE IF r.Code = DuplicateReport THEN "DuplicateSuccess"
    ELSE "ServerError"

\* C28: every reply runQueueLoop handles has exactly one outcome and exactly
\* that outcome's counters are incremented, by one each: the success counter
\* alone for Success, the success and the duplicate counter for
\* DuplicateSuccess, the error counter of the reply's code alone for
\* ServerError; the connection-error counter is untouched, the duplicate code
\* is never counted as a server error and no duplicate is counted that is not
\* also counted as a success.
C28_ReplyClassifiedOnce ==
    /\ [][(HandlesSend /\ res \in Replies /\ ~ctxDone) =>
            LET o == ReplyOutcome(res) IN
            /\ transmitSuccessCount' = transmitSuccessCount
                   + (IF o \in {"Success", "DuplicateSuccess"} THEN 1 ELSE 0)
            /\ transmitDuplicateCount' = transmitDuplicateCount
                   + (IF o = "DuplicateSuccess" THEN 1 ELSE 0)
            /\ promTransmitServerErrorCount' =
                   [c \in Codes |-> promTransmitServerErrorCount[c]
                       + (IF o = "ServerError" /\ c = res.Code THEN 1 ELSE 0)]
            /\ transmitConnectionErrorCount' = transmitConnectionErrorCount]_vars
    /\ [](/\ promTransmitServerErrorCount[DuplicateReport] = 0
          /\ transmitDuplicateCount <= transmitSuccessCount
          /\ RepliesCounted <= Cardinality(replied))

\* Two replies have been handled, one a duplicate and one a server error.
C28_Witness ==
    /\ transmitSuccessCount = 1
    /\ transmitDuplicateCount = 1
    /\ promTransmitServerErrorCount["OtherCode"] = 1
    /\ tpc = "pop"

\* A deletion is requested in this step: a hash enters the delete channel, is
\* handed to the parked delete loop, or is dropped on a full channel.
RequestsDeletion ==
    \/ Len(deleteQueue') > Len(deleteQueue)
    \/ dpc = "parked" /\ dpc' = "woken"
    \/ dropped' # dropped

\* C29: a deletion is requested only by the step of runQueueLoop that handles
\* a reply to the send of this iteration, and for the record just sent; a step
\* that handles a transport error or finds the context cancelled requests
\* none; so a record whose deletion was requested has a reply and is neither
\* queued nor held for another send, a record never sent or whose sends all
\* failed is not requested, and orm.Delete removes from storage only the hash
\* the delete loop took, which has a reply.
C29_DeleteOnlyAfterReply ==
    /\ [][RequestsDeletion =>
            /\ tpc = "sent"
            /\ res \in Replies
            /\ ~ctxDone
            /\ t \in replied
            /\ Offered(t)
            /\ tpc' = "pop"]_vars
    /\ [][(HandlesSend /\ (ErrNotNil(res) \/ ctxDone)) =>
            /\ deleteQueue' = deleteQueue
            /\ dropped' = dropped
            /\ hash' = hash]_vars
    /\ [](\A h \in DeletionRequested : h \in replied /\ h \notin q /\ h # t)
    /\ [][\A h \in stored \ stored' : h = hash /\ h \in replied /\ dpc = "deleting"]_vars

\* A confirmed record has been removed from storage while another record,
\* whose only send failed with a transport error, is back on the queue, still
\* stored and not requested for deletion.
C29_Witness ==
    /\ \E h \in replied : h \notin stored
    /\ \E g \in q : /\ g \in netCalled
                     /\ g \notin replied
                     /\ g \in stored
                     /\ g \notin DeletionRequested

\* s.transmit returned because the deadline of the attempt expired.
DeadlineExpired == tpc = "sent" /\ res.kind = "deadline"

\* C30: a send that ended on the attempt's deadline, with no shutdown
\* signalled, is handled as a transport error and does not end the loop: the
\* connection-error counter is incremented by one, the record is pushed back,
\* the loop goes to its backoff wait, and from the wait it goes to the next
\* pop unless shutdown is signalled meanwhile.
C30_DeadlineIsTransportError ==
    /\ [][(DeadlineExpired /\ ~stopCh /\ tpc' # tpc) =>
            /\ transmitConnectionErrorCount' = transmitConnectionErrorCount + 1
            /\ q' = q \cup {t}
            /\ t' = t
            /\ tb' = tb + 1
            /\ tpc' = "backoff"
            /\ UNCHANGED <<transmitSuccessCount, transmitDuplicateCount,
                           promTransmitServerErrorCount, deleteQueue, dropped>>]_vars
    /\ [][(tpc = "backoff" /\ ~stopCh /\ tpc' # tpc) => tpc' = "pop"]_vars
    /\ (DeadlineExpired /\ ~stopCh) ~> (tpc = "pop" \/ stopCh)

\* The loop waits in its backoff after a send that ended on the deadline, the
\* record is back on the queue and no shutdown was signalled.
C30_Witness ==
    /\ tpc = "backoff"
    /\ res.kind = "deadline"
    /\ ~stopCh
    /\ t \in q
    /\ transmitConnectionErrorCount = 1

\* Some entry of the health map h is a non-nil error.
Unhealthy(h) == \E name \in DOMAIN h : h[name] # "nil"

\* Every entry of the health map h appears in the map r.
Contains(r, h) == \A name \in DOMAIN h : name \in DOMAIN r /\ r[name] = h[name]

\* C21 as stated: the map HealthReport() returns contains every entry of the
\* client's, the queue's and the persistence layer's health, and holds a
\* non-nil error exactly when one of the three reports one.
C21_UnionOfThree ==
    report.returned =>
        /\ Contains(report.health, clientHealth)
        /\ Contains(report.health, queueHealth)
        /\ Contains(report.health, pmHealth)
        /\ Unhealthy(report.health) <=>
               (Unhealthy(clientHealth) \/ Unhealthy(queueHealth) \/ Unhealthy(pmHealth))

\* C21 amended: the map HealthReport() returns contains every entry of the
\* client's and of the queue's health and nothing else, and holds a non-nil
\* error exactly when the client or the queue reports one; the persistence
\* layer contributes no entry.
C21_UnionOfClientAndQueue ==
    report.returned =>
        /\ Contains(report.health, clientHealth)
        /\ Contains(report.health, queueHealth)
        /\ DOMAIN report.health = DOMAIN clientHealth \cup DOMAIN queueHealth
        /\ Unhealthy(report.health) <=>
               (Unhealthy(clientHealth) \/ Unhealthy(queueHealth))
        /\ \A name \in DOMAIN pmHealth : name \notin DOMAIN report.health

\* HealthReport() has returned for a healthy client with two entries, an
\* unhealthy queue and an unhealthy persistence layer.
C21_Witness ==
    /\ report.returned
    /\ DOMAIN clientHealth = ClientNames
    /\ ~Unhealthy(clientHealth)
    /\ Unhealthy(queueHealth)
    /\ Unhealthy(pmHealth)
    /\ Unhealthy(report.health)

\* What belongs to the server of one destination: its fields, its children
\* of the counter vectors, its rows in the ORM.
OwnCounters(url) == [name \in CounterNames |-> CounterOf(name, url)]

OwnRows(url) == {row \in ormRows : row[1] = url}

\* C22: a step of one server's loops (a transport error, a storage error, a
\* reply dropped on a full delete channel, its loops exiting, or any other
\* step) changes nothing of another destination's server: its queue, its
\* delete channel, its loop state, its counters and its stored records are
\* the same after the step; and as long as no worker has panicked the other
\* server's transmit loop can go on with what it has queued.
C22_DestinationsIsolated ==
    /\ [][\A url \in ServerURLs : actor' # url =>
            /\ servers'[url] = servers[url]
            /\ OwnCounters(url)' = OwnCounters(url)
            /\ OwnRows(url)' = OwnRows(url)]_vars
    /\ [](\A url \in DOMAIN servers :
            (~crashed /\ ~servers[url].stopped /\ servers[url].q # {}) =>
                ENABLED PairReply(url))

\* Destination A has had its transport errors and its storage errors, has
\* dropped a deletion on a full channel and its loops have returned with
\* records still stored; destination B has delivered and deleted everything
\* and counted no failure.
C22_Witness ==
    /\ DOMAIN servers = ServerURLs
    /\ ~crashed
    /\ CounterOf("transmit_connection_error_count", "A") = MaxTransportErrors
    /\ CounterOf("transmit_queue_delete_error_count", "A") = MaxDeleteErrors
    /\ servers["A"].dropped # {}
    /\ servers["A"].stopped
    /\ OwnRows("A") # {}
    /\ OwnRows("B") = {}
    /\ CounterOf("transmit_success_count", "B") = TransmitQueueMaxSize + 1
    /\ CounterOf("transmit_connection_error_count", "B") = 0
    /\ CounterOf("transmit_queue_delete_error_count", "B") = 0

\* The addresses whose employedSince is non-zero and whose terminatedAt is zero.
ActiveEmployees ==
    {a \in Addresses : employees[a].employedSince # 0 /\ employees[a].terminatedAt = 0}

\* C23: in every state the contract reaches by registerEmployee,
\* terminateEmployee, withdrawSalary and switchCurrency calls, reverted or not,
\* getActiveEmployeeCount() is the number of addresses with a non-zero
\* employedSince and a zero terminatedAt.
C23_CountIsNumberOfActive ==
    getActiveEmployeeCount = Cardinality(ActiveEmployees)

\* One account is terminated, the other is active, and the last call, a
\* registration of the active one, reverted.
C23_Witness ==
    /\ activeEmployeeCount = 1
    /\ employees[1].terminatedAt # 0
    /\ employees[2].employedSince > employees[1].terminatedAt
    /\ employees[2].terminatedAt = 0
    /\ lastCall.fn = "registerEmployee"
    /\ lastCall.error = "EmployeeAlreadyRegistered"

\* This step is a withdrawSalary transaction of account e.
WithdrawsNow(e) ==
    /\ lastCall' # lastCall
    /\ lastCall'.fn = "withdrawSalary"
    /\ lastCall'.sender = e

\* C24 as stated: once an employee is terminated, salaryAvailable(employee)
\* is weeklyUsdSalary x (terminatedAt - lastWithdrawal) / 7 days and no step
\* other than a withdrawSalary of that employee changes it; and a withdrawal
\* of that employee that goes through pays exactly this amount.
C24_AccruedSalaryStaysWithdrawable ==
    [][\A e \in Senders :
          (employees[e].terminatedAt # 0
             /\ employees[e].terminatedAt > employees[e].lastWithdrawal) =>
             /\ ~salaryAvailable(e).panic =>
                   salaryAvailable(e).value =
                       (employees[e].weeklyUsdSalary
                          * (employees[e].terminatedAt - employees[e].lastWithdrawal))
                       \div WEEK
             /\ ~WithdrawsNow(e) => salaryAvailable(e)' = salaryAvailable(e)
             /\ (WithdrawsNow(e) /\ lastCall'.error = "none") =>
                   lastCall'.amount = salaryAvailable(e).value]_vars

\* C25: a registerEmployee or terminateEmployee transaction sent by anyone
\* but the HR manager reverts with NotAuthorized, whatever its argument and
\* whatever the state; a withdrawSalary or switchCurrency transaction sent by
\* an address that has no record reverts with EmployeeNotRegistered; and such
\* a transaction leaves every employee record and the active employee count
\* as they were.
C25_UnauthorizedCallsRevert ==
    [][lastCall' # lastCall =>
          /\ (lastCall'.fn \in {"registerEmployee", "terminateEmployee"}
                 /\ lastCall'.sender # hrManagerAddress) =>
                 /\ lastCall'.error = "NotAuthorized"
                 /\ UNCHANGED <<employees, activeEmployeeCount>>
          /\ (lastCall'.fn \in {"withdrawSalary", "switchCurrency"}
                 /\ employees[lastCall'.sender].employedSince = 0) =>
                 /\ lastCall'.error = "EmployeeNotRegistered"
                 /\ UNCHANGED <<employees, activeEmployeeCount>>]_vars

\* The account that is not the HR manager and has no record has tried to
\* terminate the HR manager's own, active, employment and was refused.
C25_Witness ==
    /\ lastCall.fn = "terminateEmployee"
    /\ lastCall.sender = 2
    /\ lastCall.employee = hrManagerAddress
    /\ lastCall.error = "NotAuthorized"
    /\ employees[2].employedSince = 0
    /\ employees[hrManagerAddress].employedSince # 0
    /\ employees[hrManagerAddress].terminatedAt = 0
    /\ activeEmployeeCount = 1

\* The address has a record and is not terminated.
IsActive(a) == employees[a].employedSince # 0 /\ employees[a].terminatedAt = 0

\* C26 as stated, for transactions of the HR manager: terminateEmployee on any
\* address that is not registered or is already terminated reverts with
\* EmployeeNotRegistered, registerEmployee on an active employee reverts with
\* EmployeeAlreadyRegistered, and a reverted call changes neither the records
\* nor the active employee count.
C26_InvalidTransitionsRevert ==
    [][(lastCall' # lastCall /\ lastCall'.sender = hrManagerAddress) =>
          /\ (lastCall'.fn = "terminateEmployee" /\ ~IsActive(lastCall'.employee)) =>
                 lastCall'.error = "EmployeeNotRegistered"
          /\ (lastCall'.fn = "registerEmployee" /\ IsActive(lastCall'.employee)) =>
                 lastCall'.error = "EmployeeAlreadyRegistered"
          /\ lastCall'.error # "none" => UNCHANGED <<employees, activeEmployeeCount>>]_vars

\* C26 amended: for transactions of the HR manager, terminateEmployee on an
\* address other than address(0) that is not registered or is already
\* terminated reverts with EmployeeNotRegistered, and on address(0) it reverts
\* with NotAuthorized, as registerEmployee does; registerEmployee on an active
\* employee reverts with EmployeeAlreadyRegistered; terminateEmployee on an
\* active employee and registerEmployee on a non-zero address that is not
\* active go through; and a reverted call changes neither the records nor the
\* active employee count.
C26_InvalidTransitionsRevertNonZero ==
    [][(lastCall' # lastCall /\ lastCall'.sender = hrManagerAddress) =>
          /\ (lastCall'.fn = "terminateEmployee" /\ ~IsActive(lastCall'.employee)) =>
                 lastCall'.error = IF lastCall'.employee = 0
                                      THEN "NotAuthorized" ELSE "EmployeeNotRegistered"
          /\ (lastCall'.fn = "terminateEmployee" /\ IsActive(lastCall'.employee)) =>
                 lastCall'.error = "none"
          /\ (lastCall'.fn = "registerEmployee" /\ IsActive(lastCall'.employee)) =>
                 lastCall'.error = "EmployeeAlreadyRegistered"
          /\ (lastCall'.fn = "registerEmployee" /\ ~IsActive(lastCall'.employee)) =>
                 lastCall'.error = IF lastCall'.employee = 0 THEN "NotAuthorized" ELSE "none"
          /\ lastCall'.error # "none" => UNCHANGED <<employees, activeEmployeeCount>>]_vars

\* The HR manager has tried to terminate an employee a second time and was
\* refused, with the other account still active.
C26_Witness ==
    /\ lastCall.fn = "terminateEmployee"
    /\ lastCall.sender = hrManagerAddress
    /\ lastCall.employee = 2
    /\ lastCall.error = "EmployeeNotRegistered"
    /\ employees[2].terminatedAt # 0
    /\ IsActive(hrManagerAddress)
    /\ activeEmployeeCount = 1

\* The time salary has accrued over and has not been withdrawn for: from
\* lastWithdrawal to now for an active employee, to terminatedAt for a
\* terminated one, and nothing for an address without a record or when
\* lastWithdrawal is not before that end.
AccruedTime(e) ==
    LET emp == employees[e]
        end == IF emp.terminatedAt = 0 THEN blockTimestamp ELSE emp.terminatedAt
    IN  IF emp.employedSince # 0 /\ end > emp.lastWithdrawal
           THEN end - emp.lastWithdrawal ELSE 0

\* A withdrawSalary transaction goes through in this step.
WithdrawalPaid == lastCall' # lastCall /\ lastCall'.fn = "withdrawSalary"
                     /\ lastCall'.error = "none"

\* C27 as stated: salaryAvailable(e) returns weeklyUsdSalary x (end -
\* lastWithdrawal) / 7 days, rounded down, for every address in every state (0
\* for an address without a record); it is 0 right after a withdrawal; and
\* for a terminated employee no step makes it larger.
C27_SalaryFormula ==
    /\ [](\A e \in Addresses :
            /\ ~salaryAvailable(e).panic
            /\ salaryAvailable(e).value =
                   (employees[e].weeklyUsdSalary * AccruedTime(e)) \div WEEK)
    /\ [][\A e \in Senders : (WithdrawalPaid /\ lastCall'.sender = e) =>
            salaryAvailable(e)'.value = 0]_vars
    /\ [][\A e \in Addresses :
            (employees[e].terminatedAt # 0 /\ employees'[e].terminatedAt # 0) =>
                salaryAvailable(e)'.value <= salaryAvailable(e).value]_vars

\* C27 amended: when weeklyUsdSalary x (end - lastWithdrawal) fits in a
\* uint256, salaryAvailable(e) returns that product divided by 7 days, rounded
\* down (0 for an address without a record), and when it does not fit the
\* call reverts; it is 0 right after a withdrawal; and for a terminated
\* employee no step makes it larger or makes it revert when it did not.
C27_SalaryFormulaUnlessOverflow ==
    /\ [](\A e \in Addresses :
            IF AccruedTime(e) > 0
                  /\ employees[e].weeklyUsdSalary > MaxUint256 \div AccruedTime(e)
               THEN salaryAvailable(e).panic
               ELSE /\ ~salaryAvailable(e).panic
                    /\ salaryAvailable(e).value =
                           (employees[e].weeklyUsdSalary * AccruedTime(e)) \div WEEK)
    /\ [][\A e \in Senders : (WithdrawalPaid /\ lastCall'.sender = e) =>
            salaryAvailable(e)' = [panic |-> FALSE, value |-> 0]]_vars
    /\ [][\A e \in Addresses :
            (employees[e].terminatedAt # 0 /\ employees'[e].terminatedAt # 0) =>
                /\ salaryAvailable(e)'.value <= salaryAvailable(e).value
                /\ salaryAvailable(e)'.panic => salaryAvailable(e).panic]_vars

\* A week after both accounts were registered at 7 a week, the one terminated
\* after half a week has 3 available and the active one has 7.
C27_Witness ==
    /\ employees[2].terminatedAt # 0
    /\ blockTimestamp = employees[2].terminatedAt + Tick
    /\ salaryAvailable(2) = [panic |-> FALSE, value |-> 3]
    /\ employees[1].terminatedAt = 0
    /\ salaryAvailable(1) = [panic |-> FALSE, value |-> 7]

\* BlockingPop returns on a closed queue.
PopsFromClosedQueue == tpc = "pop" /\ qClosed /\ tpc' # tpc

\* The push-back of the transport error branch is refused by a closed queue.
PushBackRejected ==
    tpc = "sent" /\ ~ctxDone /\ ErrNotNil(res) /\ ~ReqIsNil(res) /\ qClosed /\ tpc' # tpc

\* Nothing is handed to the delete loop, dropped or counted as delivered.
NoDeletionRequested ==
    /\ deleteQueue' = deleteQueue
    /\ dropped' = dropped
    /\ hash' = hash
    /\ dpc' = dpc
    /\ UNCHANGED <<transmitSuccessCount, transmitDuplicateCount,
                   promTransmitServerErrorCount>>

\* C31: a pop from a closed queue ends the transmit loop with no send, no
\* record held and no busy count taken; a push-back refused by the closed
\* queue ends it with the record not requeued and no backoff attempt consumed,
\* so the loop never enters the backoff wait; neither step requests a
\* deletion, and a loop that has returned takes no further step.
C31_ClosedQueueEndsLoop ==
    /\ [][PopsFromClosedQueue =>
            /\ tpc' = "done"
            /\ netCalled' = netCalled
            /\ replied' = replied
            /\ t' = NoTransmission
            /\ q' = q
            /\ transmitThreadBusyCount' = transmitThreadBusyCount
            /\ transmitConnectionErrorCount' = transmitConnectionErrorCount
            /\ NoDeletionRequested]_vars
    /\ [][PushBackRejected =>
            /\ tpc' = "done"
            /\ tb' = tb
            /\ q' = q
            /\ t' = NoTransmission
            /\ netCalled' = netCalled
            /\ transmitConnectionErrorCount' = transmitConnectionErrorCount + 1
            /\ NoDeletionRequested]_vars
    /\ [][tpc = "done" => UNCHANGED transmitVars]_vars

\* The loop has returned because the closed queue refused the push-back of the
\* only record it ever sent: one transport error counted, no backoff attempt
\* consumed, the record neither queued nor requested for deletion.
C31_Witness ==
    /\ tpc = "done"
    /\ outcome = "pushRejected"
    /\ qClosed
    /\ transmitConnectionErrorCount = 1
    /\ tb = 0
    /\ netCalled # {}
    /\ netCalled \cap q = {}
    /\ deleteQueue = <<>>
    /\ dropped = {}

\* The loop has returned from a pop on the closed queue without ever sending.
C31_WitnessPopClosed ==
    /\ tpc = "done"
    /\ outcome = "closed"
    /\ netCalled = {}
    /\ tb = 0
    /\ deleteQueue = <<>>
    /\ dropped = {}

\* schedule[0] + ... + schedule[i], i counted from 0.
RECURSIVE CumulativeSum(_, _)
CumulativeSum(schedule, i) ==
    IF i < 0 THEN 0 ELSE CumulativeSum(schedule, i - 1) + schedule[i + 1]

\* The bucket indexes whose cumulative sum exceeds rank.
BucketsAbove(schedule, rank) ==
    {i \in 0 .. Len(schedule) - 1 : CumulativeSum(schedule, i) > rank}

\* The smallest of them.
SmallestBucket(schedule, rank) ==
    CHOOSE i \in BucketsAbove(schedule, rank) :
        \A j \in BucketsAbove(schedule, rank) : i <= j

\* What delayFor returns for the peer at position p (from 0) of the call that
\* returned a map.
ReturnedDelayFor(p) ==
    delayFor(p, createTransmissionSchedule(ret.tc.Schedule, Len(donPeerIDs)).sch,
             picked, ret.tc.DeltaStage)

\* The delay of the peer at each position is the smallest bucket's index
\* times DeltaStage, and rank times DeltaStage under oneAtATime.
DelayIsSmallestBucket ==
    ReturnedMap =>
        LET N   == Len(donPeerIDs)
            sch == createTransmissionSchedule(ret.tc.Schedule, N).sch
        IN  \A p \in 0 .. N - 1 :
               /\ BucketsAbove(sch, picked[p + 1]) # {}
               /\ ~ReturnedDelayFor(p).isNil
               /\ ReturnedDelayFor(p).d =
                     SmallestBucket(sch, picked[p + 1]) * ret.tc.DeltaStage
               /\ ret.delays[donPeerIDs[p + 1]] \in
                     {ReturnedDelayFor(x).d : x \in 0 .. N - 1}
               /\ ret.tc.Schedule = Schedule_OneAtATime =>
                     ReturnedDelayFor(p).d = picked[p + 1] * ret.tc.DeltaStage

\* A peer of lower permuted rank gets no larger delay than one of higher rank.
DelayMonotoneInRank ==
    ReturnedMap =>
        \A p, r \in 0 .. Len(donPeerIDs) - 1 :
            picked[p + 1] < picked[r + 1] =>
                ReturnedDelayFor(p).d <= ReturnedDelayFor(r).d

\* C32: for the peer at each position p of a call that returned a map,
\* delayFor returns i * DeltaStage with i the smallest bucket index whose
\* cumulative schedule sum exceeds picked[p]; a peer of lower rank never gets
\* a larger delay than a peer of higher rank; and under oneAtATime the delay
\* is picked[p] * DeltaStage.
C32_DelayForSmallestBucket == DelayIsSmallestBucket /\ DelayMonotoneInRank

\* The same with the order of delays required only of a DeltaStage that is
\* not negative.
C32_MonotoneForNonNegativeStage ==
    /\ DelayIsSmallestBucket
    /\ ret.tc.DeltaStage >= 0 => DelayMonotoneInRank

\* The smaller of two durations.
Shorter(a, b) == IF a < b THEN a ELSE b

\* The wait w lies between floor and the smaller of floor * 2^(k-1) and cap.
WaitWithin(w, k, floor, cap) ==
    /\ floor <= w.lo
    /\ w.lo <= w.hi
    /\ w.hi <= Shorter(floor * 2^(k - 1), cap)

\* The transmit loop enters its backoff wait.
EntersTransmitBackoff == tpc # "backoff" /\ tpc' = "backoff"

\* C33: runQueueLoop's attempt counter counts the transport errors since the
\* last reply (one more at each error that leads to a wait, zero after every
\* reply whatever its classification, changed by no other step), so the wait
\* after the k-th consecutive transport error is the backoff's value for
\* attempt k-1, which for every k lies between 5ms and min(5ms * 2^(k-1), 1s);
\* the wait after the first error that follows a reply is exactly 5ms.
C33_TransmitBackoffBounds ==
    /\ [][EntersTransmitBackoff =>
            /\ HandlesSend /\ res \in TransportErrors
            /\ tb' = tb + 1
            /\ WaitWithin(ForAttempt(TransmitBackoff, tb), tb + 1, 5, 1000)]_vars
    /\ [][(HandlesSend /\ res \in Replies /\ ~ctxDone) =>
            /\ tb' = 0
            /\ ForAttempt(TransmitBackoff, tb') = [lo |-> 5, hi |-> 5]]_vars
    /\ [][tb' # tb => \/ EntersTransmitBackoff
                      \/ HandlesSend /\ res \in Replies]_vars
    /\ [](tpc = "backoff" => tb >= 1 /\ WaitWithin(TransmitWait, tb, 5, 1000))
    /\ [](\A k \in 1 .. MaxAttempts :
             WaitWithin(ForAttempt(TransmitBackoff, k - 1), k, 5, 1000))

\* The loop waits after the second transport error it has counted, which is
\* the first since a reply: the wait is 5ms again.
C33_Witness ==
    /\ tpc = "backoff"
    /\ transmitConnectionErrorCount = 2
    /\ replied # {}
    /\ tb = 1
    /\ TransmitWait = [lo |-> 5, hi |-> 5]

\* The loop waits after two transport errors in a row: between 5ms and 10ms.
C33_WitnessSecondInARow ==
    /\ tpc = "backoff"
    /\ transmitConnectionErrorCount = 2
    /\ tb = 2
    /\ TransmitWait = [lo |-> 5, hi |-> 10]

\* C34: while the delete loop works on a hash, its attempt counter is the
\* number of storage errors orm.Delete has returned for that hash, so the wait
\* after the k-th consecutive storage error is the backoff's value for attempt
\* k-1, which for every k lies between 1s and min(1s * 2^(k-1), 120s); and the
\* counter is zero whenever the loop is between hashes, so the first retry
\* wait of every hash is 1s whatever failed before it.
C34_DeleteBackoffBounds ==
    /\ dpc \in {"deleting", "backoff"} => db = deleteFails
    /\ dpc \in {"wait", "parked", "woken"} => db = 0
    /\ dpc = "backoff" =>
          /\ deleteFails >= 1
          /\ WaitWithin(DeleteWait, deleteFails, 1000, 120000)
          /\ deleteFails = 1 => DeleteWait = [lo |-> 1000, hi |-> 1000]
          /\ \A k \in deleteFails .. MaxAttempts :
                WaitWithin(ForAttempt(DeleteBackoff, k - 1), k, 1000, 120000)

\* Delete failed once for an earlier hash and has now failed for the first
\* time for a later one: the loop waits 1s.
C34_Witness ==
    /\ dpc = "backoff"
    /\ errCountAtTake = 1
    /\ transmitQueueDeleteErrorCount = 2
    /\ deleteFails = 1
    /\ db = 1
    /\ DeleteWait = [lo |-> 1000, hi |-> 1000]

\* Delete has failed twice in a row for one hash: the loop waits between 1s
\* and 2s.
C34_WitnessSecondInARow ==
    /\ dpc = "backoff"
    /\ deleteFails = 2
    /\ DeleteWait = [lo |-> 1000, hi |-> 2000]

\* The transmit counter is 0 or 1, and 0 while the loop is in BlockingPop or
\* has returned.
TransmitBusyCountsInFlight ==
    /\ transmitThreadBusyCount \in {0, 1}
    /\ tpc \in {"pop", "done"} => transmitThreadBusyCount = 0
    /\ tpc \in {"sending", "sent", "backoff"} => transmitThreadBusyCount = 1

\* The delete counter is 0 or 1, and 0 while the loop waits for a hash or has
\* returned.
DeleteBusyCountsInFlight ==
    /\ deleteThreadBusyCount \in {0, 1}
    /\ dpc \in {"wait", "parked", "done"} => deleteThreadBusyCount = 0

\* C35: each busy counter is 0 or 1 in every reachable state and is 0
\* whenever its loop is waiting for work or has returned.
C35_BusyCountersCountInFlight ==
    TransmitBusyCountsInFlight /\ DeleteBusyCountsInFlight

\* The step pushes the popped record back after a transport error.
OutcomeRequeued ==
    /\ res \in TransportErrors
    /\ t \notin q /\ q' = q \cup {t}

\* The step puts the record's hash on the delete channel (or hands it to the
\* receiver parked on it).
OutcomeDeletionRequested ==
    /\ res \in Replies
    /\ \/ deleteQueue' = Append(deleteQueue, t)
       \/ ReceiverParked /\ hash' = t /\ dpc' = "woken"

\* The step drops the deletion request on a full channel.
OutcomeDeletionDropped ==
    /\ res \in Replies
    /\ t \notin dropped /\ dropped' = dropped \cup {t}

\* The step ends the loop on shutdown or on a closed queue and leaves the
\* record where it is.
OutcomeAbandoned ==
    /\ ctxDone \/ qClosed
    /\ tpc' = "done"
    /\ t \notin q'

\* How many of the conditions hold.
HowMany(conditions) == Cardinality({i \in 1 .. Len(conditions) : conditions[i]})

\* Hashes ever sent on the delete channel: still in it, taken by the delete
\* loop, or already deleted from storage.
EverEnqueued ==
    Range(deleteQueue)
        \cup (IF hash = NoTransmission THEN {} ELSE {hash})
        \cup ((1 .. nextHash - 1) \ stored)

\* The transmit loop is between two iterations, or has returned.
IterationBoundary == tpc \in {"pop", "done"}

\* Deletions requested and dropped add up to the replies counted.
RequestsMatchReplies ==
    IterationBoundary =>
        Cardinality(EverEnqueued) + Cardinality(dropped) =
            transmitSuccessCount + promTransmitServerErrorCount["DuplicateReport"]
                + promTransmitServerErrorCount["OtherCode"]

\* The step that handles what the send returned has exactly one outcome.
OneOutcome ==
    /\ HowMany(<<OutcomeRequeued, OutcomeDeletionRequested, OutcomeDeletionDropped,
                 OutcomeAbandoned>>) = 1
    /\ OutcomeRequeued \/ OutcomeAbandoned =>
          deleteQueue' = deleteQueue /\ dropped' = dropped /\ hash' = hash
    /\ OutcomeDeletionRequested \/ OutcomeDeletionDropped => q' = q /\ t \notin q'
    /\ t \notin q' \/ t \notin Range(deleteQueue') \cup dropped'

\* C36: the step of an iteration that handles what the send of the popped
\* record returned has exactly one of the outcomes requeued, deletion
\* requested, deletion request dropped, abandoned; and whenever the loop is
\* between iterations or has returned, the hashes sent on the delete channel
\* plus the dropped requests are as many as the success counter plus the
\* server-error counters.
C36_OneOutcomePerIteration ==
    /\ [][HandlesSend => OneOutcome]_vars
    /\ [](RequestsMatchReplies)

\* The same for every iteration in which the send built a request.
C36_OneOutcomeUnlessEncodeError ==
    /\ [][(HandlesSend /\ ~(ReqIsNil(res) /\ ~ctxDone)) => OneOutcome]_vars
    /\ [](RequestsMatchReplies)

\* The delete loop holds a hash it has not yet deleted.
WorkingOnHash == dpc \in {"woken", "deleting", "backoff"}

\* The delete loop receives its next hash: the head of the channel, or, when
\* it is parked on the empty channel, the hash a reply is being handled for.
TakesNextHash ==
    \/ /\ deleteQueue # <<>>
       /\ hash' = Head(deleteQueue)
       /\ deleteQueue' = Tail(deleteQueue)
    \/ /\ deleteQueue = <<>> /\ deleteQueue' = <<>>
       /\ HandlesSend /\ res \in Replies
       /\ hash' = t

ScheduleWithoutStage == config.Schedule # "" /\ config.DeltaStage = <<>>

\* The request gives a DeltaStage that is a duration and names no schedule.
StageWithoutSchedule ==
    config.Schedule = "" /\ config.DeltaStage # <<>> /\ ParseDuration(config.DeltaStage).ok

\* C38: for a well-typed request, a config that names a schedule and leaves
\* DeltaStage empty gets the duration parse error, a zero config and no map,
\* never a zero DeltaStage; a config whose DeltaStage is a duration and whose
\* Schedule is empty is extracted without error as {"", that duration}, is
\* refused by createTransmissionSchedule for every member count, and gets an
\* error and no map from GetPeerIDToTransmissionDelay (the unknown-schedule
\* error when the execution ID is valid); and whenever not both fields are
\* empty, an extraction without error keeps the schedule name of the request.
C38_DefaultOnlyWhenBothEmpty ==
    (RequestReturned /\ config.wellTyped) =>
        /\ ScheduleWithoutStage =>
              /\ ret.err = "parse"
              /\ ret.tc = ZeroConfig
              /\ ret.isNil
              /\ ret.delays = EmptyMap
        /\ StageWithoutSchedule =>
              /\ ret.tc = [Schedule   |-> "",
                           DeltaStage |-> ParseDuration(config.DeltaStage).d]
              /\ ret.fn = "ExtractTransmissionConfig" => ret.err = "nil"
              /\ \A n \in 0 .. MaxPeers : createTransmissionSchedule(ret.tc.Schedule, n).err
              /\ ret.fn = "GetPeerIDToTransmissionDelay" =>
                    /\ ret.err = IF ValidateWorkflowOrExecutionID(transmissionID)
                                    THEN "unknown schedule" ELSE "invalid id"
                    /\ ret.isNil
                    /\ ret.delays = EmptyMap
        /\ (~ConfigEmpty /\ ret.fn = "ExtractTransmissionConfig" /\ ret.err = "nil") =>
              ret.tc.Schedule = config.Schedule

\* ExtractTransmissionConfig was called with the oneAtATime schedule and no
\* DeltaStage: it returned the parse error and a zero config.
C38_Witness ==
    /\ ret.fn = "ExtractTransmissionConfig"
    /\ config = [wellTyped |-> TRUE, Schedule |-> Schedule_OneAtATime, DeltaStage |-> <<>>]
    /\ ret.err = "parse"
    /\ ret.tc = ZeroConfig

\* GetPeerIDToTransmissionDelay was called for three peers and a valid ID with
\* a DeltaStage of "1s" and no schedule: it returned the unknown-schedule
\* error and a nil map.
C38_WitnessNoSchedule ==
    /\ ret.fn = "GetPeerIDToTransmissionDelay"
    /\ config = [wellTyped |-> TRUE, Schedule |-> "", DeltaStage |-> <<"1", "s">>]
    /\ Len(donPeerIDs) = 3
    /\ ValidateWorkflowOrExecutionID(transmissionID)
    /\ ret.err = "unknown schedule"
    /\ ret.isNil

\* A switchCurrency transaction of e is executed in this step.
SwitchStep(e) ==
    /\ lastCall' # lastCall \/ employees' # employees
    /\ lastCall'.fn = "switchCurrency"
    /\ lastCall'.sender = e

\* The errors a payment in the currency e prefers can fail with.
PaymentFailures(e) == PaymentOutcomes(employees[e].prefersEth) \ {"none"}

C39_WitnessTerminated ==
    /\ lastCall.fn = "switchCurrency"
    /\ lastCall.error = "NotAuthorized"
    /\ employees[lastCall.sender].terminatedAt # 0
    /\ employees[lastCall.sender].prefersEth

\* The step is an application of the changeset.
AppliesChangeset == Len(applications') = Len(applications) + 1

\* Every transaction of the application is for a contract whose owner, when
\* the application started, was not the timelock of the chain.
SentOnlyWhenOwnerDiffers ==
    LET sent == applications'[Len(applications')].sent IN
    \A i \in DOMAIN sent :
        /\ sent[i].contract \in Range(transferCfg.Contracts[sent[i].chainSelector])
        /\ sent[i].newOwner = transferCfg.TimelocksPerChain[sent[i].chainSelector]
        /\ onchain[sent[i].contract].owner # sent[i].newOwner

\* A chain of Contracts has no timelock: the error of Validate is returned, no
\* transaction is sent and no contract changes.
NothingSentWhenInvalid ==
    (\E chainSelector \in DOMAIN transferCfg.Contracts :
        chainSelector \notin DOMAIN transferCfg.TimelocksPerChain)
    => /\ applications'[Len(applications')] = [err |-> "missing timelock", sent |-> <<>>]
       /\ onchain' = onchain

\* The application before this one returned no error.
PreviousSucceeded ==
    /\ applications # <<>>
    /\ applications[Len(applications)].err = "nil"

\* The transfer of the contract to newOwner is proposed and not accepted.
AwaitsAcceptance(contract, newOwner) ==
    /\ onchain[contract].twoStep
    /\ onchain[contract].pendingOwner = newOwner
    /\ onchain[contract].owner # newOwner

C40_WitnessNothingLeft ==
    /\ Len(applications) >= 2
    /\ applications[1].err = "nil"
    /\ applications[1].sent # <<>>
    /\ applications[2] = [err |-> "nil", sent |-> <<>>]

\* An application was refused by Validate while a listed contract was owned
\* by the deployer key.
C40_WitnessInvalid ==
    /\ applications # <<>>
    /\ applications[1] = [err |-> "missing timelock", sent |-> <<>>]
    /\ \E chainSelector \in DOMAIN transferCfg.Contracts :
          \E i \in DOMAIN transferCfg.Contracts[chainSelector] :
              onchain[transferCfg.Contracts[chainSelector][i]].owner = DeployerKey

====
